---- MODULE Spec2Model ----
(***************************************************************************)
(* The scheduling-and-dispatch engine of the social media agent:           *)
(* PostScheduler (services/scheduler.py), the Post table behind            *)
(* DatabaseManager (models/database.py), the content generator             *)
(* (services/ai_content_generator.py) and the callers of the control       *)
(* surface (main.py, api/web_dashboard.py).                                *)
(*                                                                         *)
(* Time is counted in minutes since midnight of day 0.  The polling loop   *)
(* of every started thread is a process with its own position (tpc); the   *)
(* thread that drives the control surface (the CLI, the daemon or the web  *)
(* event loop) is one more sequential process (cpc).  The trigger table is *)
(* the job list of the schedule library: run_pending() runs, in the order  *)
(* of their next_run, the jobs whose next_run has come when it is called,  *)
(* and a job gets its next next_run when its function has returned.        *)
(***************************************************************************)
EXTENDS Integers, Sequences, FiniteSets, TLC

----------------------------------------------------------------------------
(* Bounds of the model. *)

\* Number of Post rows the table may hold; create_post fails beyond it.
MaxPosts == 3
\* The same, where every publisher answer and database failure is followed.
MaxPostsLife == 2
\* The same, where the control surface and two polling loops are followed.
MaxPostsLoops == 1
\* Number of polling threads that may exist at once.
MaxThreads == 2
\* Number of clock advances' worth of time that is explored.
MaxTicks == 2
\* Largest configured value of MAX_POSTS_PER_DAY that is explored.
MaxCap == 2

\* The rows the posts table may hold while batches are planned.
MaxPostsBatch == 4

\* The calls of the publisher that are counted for one row.
MaxPublishes == 2

----------------------------------------------------------------------------
(* Constants of the program. *)

\* timedelta(hours=24), in minutes.
HOURS_24 == 24 * 60

\* A NULL DateTime column.
NULL_TIME == -1

\* A NULL String/Text column, Python's None.
None == "None"

\* The platforms of SocialMediaManager that the model follows, in the order
\* of its dictionary.
PlatformOrder == <<"twitter", "facebook">>

Platforms == {PlatformOrder[i] : i \in 1..Len(PlatformOrder)}

\* The theme that is configured unless a specification draws it.
THEME == "motivation"

\* PostScheduler.optimal_times (hour of day), with the default of
\* optimal_times.get(platform, [9, 15, 21]).
optimal_times(platform) ==
    CASE platform = "twitter"   -> <<8, 12, 17, 20>>
      [] platform = "facebook"  -> <<9, 13, 15, 19>>
      [] platform = "instagram" -> <<11, 14, 17, 19>>
      [] platform = "linkedin"  -> <<8, 12, 14, 17>>
      [] platform = "tiktok"    -> <<16, 18, 20, 22>>
      [] OTHER                  -> <<9, 15, 21>>

\* schedule.every(30).minutes, schedule.every(2).hours and
\* schedule.every().day.at("02:00"), in minutes.
BATCH_EVERY == 30
ANALYTICS_EVERY == 2 * 60
CLEANUP_AT == 2 * 60

\* The jumps by which the clock is sampled: ages of exactly 24 hours
\* (12 h + 12 h) and of 25 hours (12 h + 13 h) both occur.
ClockSteps == {12 * 60, 13 * 60}

\* The values of random.randint(0, 59) that are followed.
MinuteSamples == {0, 59}

\* What SocialMediaManager.post_to_platform may answer: success with a post
\* id, success without one, a failure result with or without an error
\* text, or an exception with or without a message.
PublishResults == {"ok", "ok_noid", "fail", "fail_empty", "raise", "raise_empty"}

\* How many of the update_post_status calls of one _execute_post raise
\* (the database is unreachable): none, the first, or the first and the one
\* made by the exception handler.
DbFailures == 0..2

\* The text an AI service wrote.
AI_TEXT == "ai text"

\* The keys of fallback_content in _get_fallback_content.
FallbackThemes == {"technology", "business", "motivation", "lifestyle"}

\* fallback_content[theme], the three entries of a theme that is a key.
fallback_content(theme) ==
    CASE theme = "technology" -> <<"tech 1", "tech 2", "tech 3">>
      [] theme = "business"   -> <<"business 1", "business 2", "business 3">>
      [] theme = "motivation" -> <<"motivation 1", "motivation 2", "motivation 3">>
      [] theme = "lifestyle"  -> <<"lifestyle 1", "lifestyle 2", "lifestyle 3">>

\* The themes CONTENT_THEMES may name: the keys of fallback_content and one
\* theme that is not a key.
ThemeSamples == FallbackThemes \cup {"health"}

Threads == 1..MaxThreads

----------------------------------------------------------------------------
VARIABLES
    now,                \* the wall clock, datetime.now() / func.now()
    max_posts_per_day,  \* settings.max_posts_per_day
    content_themes,     \* settings.content_themes (CONTENT_THEMES)
    is_running,         \* PostScheduler.is_running
    scheduler_thread,   \* PostScheduler.scheduler_thread (0 is None)
    handles_closed,     \* ai_generator.close() and db.close() were called
    platforms,          \* PostScheduler.platforms
    jobs,               \* schedule.jobs, the trigger table, in its order
    posting_history,    \* PostScheduler.posting_history
    posts,              \* the rows of table posts; the id is the index
    analytics,          \* the rows of table analytics
    retry,              \* a BasePlatform and its post_with_retry call
    agent,              \* an AISocialMediaAgent, its configuration and its clock
    tpc,                \* position of each polling thread
    runnable,           \* the due jobs a thread's run_pending() has yet to run
    tjob,               \* the job a thread runs
    tpost,              \* id of the Post a thread's job holds (0: none)
    tbatch,             \* pieces of content a thread's batch job has left
    tkept,              \* platform_history, the local list of a thread's _should_post
    cpc,                \* position of the control thread inside stop()
    last_call,          \* the last call of the control surface
    last_init,          \* what the last initialize() returned
    ret                 \* what the last query (get_status, ...) returned

vars == <<now, max_posts_per_day, content_themes, analytics, retry, agent, tkept, is_running, scheduler_thread,
          handles_closed, platforms, jobs, posting_history, posts, tpc, runnable, tjob, tpost,
          tbatch, cpc, last_call, last_init, ret>>

\* The state of the scheduler object and of the table.
schedState == <<is_running, scheduler_thread, handles_closed, platforms, jobs,
                posting_history, posts, tpc, runnable, tjob, tpost, tbatch>>

\* What the jobs of the polling threads leave alone.
ctlVars == <<is_running, scheduler_thread, handles_closed, platforms,
             cpc, last_call, last_init, ret>>
\* What the control surface leaves alone.
jobVars == <<posting_history, posts, runnable, tjob, tpost, tbatch>>

----------------------------------------------------------------------------
(* BasePlatform.post_with_retry (src/src/platforms/base.py): one platform    *)
(* object and the call of post_with_retry that is under way on it.           *)

(* The agent of src/src (AISocialMediaAgent): its posting job and its    *)
(* manual post. Its clock counts hours of UTC from midnight of day 0.    *)

\* The largest config.scheduling.max_daily_posts that is followed.
MaxDailyPosts == 2

\* The entries posting_history holds at most.
MaxAgentPosts == 3

\* The last reading of the agent's clock, 10 o'clock of the next day.
MaxAgentClock == 34

\* config.scheduling.posting_start_hour and posting_end_hour
POSTING_START_HOUR == 8
POSTING_END_HOUR == 22

\* The platforms _setup_platforms may have registered, in the order of the
\* dict: those whose credentials are configured.
AgentPlatformChoices ==
    {<<>>, <<"twitter">>, <<"facebook">>, <<"twitter", "facebook">>}

\* datetime.date() and datetime.hour of a reading of the clock.
DateOf(t) == t \div 24
HourOf(t) == t % 24

\* The agent after construction: no post yet, no job in progress.
AgentIdle ==
    [utcnow |-> 0, max_daily_posts |-> 1, platforms |-> <<>>,
     posting_history |-> <<>>, pc |-> "idle", todo |-> <<>>]

\* len([p for p in posting_history if p.posted_time and
\*      p.posted_time.date() == datetime.utcnow().date()])
TodayPosts(history, t) ==
    Cardinality({i \in 1..Len(history) :
                   DateOf(history[i].posted_time) = DateOf(t)})

\* The SocialMediaPost appended after post_with_retry has returned.
AgentPost(platform, t) == [platform |-> platform, posted_time |-> t]

\* _posting_job up to its loop: outside the posting hours or with the daily
\* limit reached it returns, otherwise it goes through the platforms.
posting_job ==
    /\ agent.pc = "idle"
    /\ agent' =
         IF ~(POSTING_START_HOUR <= HourOf(agent.utcnow)
              /\ HourOf(agent.utcnow) <= POSTING_END_HOUR)
         THEN agent
         ELSE IF TodayPosts(agent.posting_history, agent.utcnow)
                    >= agent.max_daily_posts
              THEN agent
              ELSE IF agent.platforms = <<>>
                   THEN agent
                   ELSE [agent EXCEPT !.pc = "posting", !.todo = agent.platforms]
    /\ UNCHANGED <<now, max_posts_per_day, content_themes, analytics, retry, tkept,
                   is_running, scheduler_thread, handles_closed, platforms, jobs,
                   posting_history, posts, tpc, runnable, tjob, tpost, tbatch, cpc,
                   last_call, last_init, ret>>

\* One round of the loop of _posting_job, _post_to_platform for the next
\* platform: the content is generated and handed to post_with_retry, which
\* returns ("ok") or raises; after a return the post is appended with the
\* time read then. An exception is logged and the loop goes on.
post_to_platform(outcome) ==
    /\ agent.pc = "posting"
    /\ agent.todo # <<>>
    /\ outcome = "ok" => Len(agent.posting_history) < MaxAgentPosts
    /\ agent' =
         [agent EXCEPT
            !.posting_history =
               IF outcome = "ok"
               THEN Append(@, AgentPost(Head(agent.todo), agent.utcnow))
               ELSE @,
            !.todo = Tail(@),
            !.pc = IF Tail(agent.todo) = <<>> THEN "idle" ELSE "posting"]
    /\ UNCHANGED <<now, max_posts_per_day, content_themes, analytics, retry, tkept,
                   is_running, scheduler_thread, handles_closed, platforms, jobs,
                   posting_history, posts, tpc, runnable, tjob, tpost, tbatch, cpc,
                   last_call, last_init, ret>>

\* manual_post(platform, content) of the agent: a platform that is not
\* configured raises ValueError; otherwise the content is generated and
\* handed to post_with_retry, and after its return the post is appended.
agent_manual_post(platform, outcome) ==
    /\ (platform \in {agent.platforms[i] : i \in 1..Len(agent.platforms)}
        /\ outcome = "ok") => Len(agent.posting_history) < MaxAgentPosts
    /\ agent' =
         IF /\ platform \in {agent.platforms[i] : i \in 1..Len(agent.platforms)}
            /\ outcome = "ok"
         THEN [agent EXCEPT
                 !.posting_history = Append(@, AgentPost(platform, agent.utcnow))]
         ELSE agent
    /\ UNCHANGED <<now, max_posts_per_day, content_themes, analytics, retry, tkept,
                   is_running, scheduler_thread, handles_closed, platforms, jobs,
                   posting_history, posts, tpc, runnable, tjob, tpost, tbatch, cpc,
                   last_call, last_init, ret>>

\* d hours pass on the agent's clock.
agent_tick(d) ==
    /\ agent.utcnow + d <= MaxAgentClock
    /\ agent' = [agent EXCEPT !.utcnow = @ + d]
    /\ UNCHANGED <<now, max_posts_per_day, content_themes, analytics, retry, tkept,
                   is_running, scheduler_thread, handles_closed, platforms, jobs,
                   posting_history, posts, tpc, runnable, tjob, tpost, tbatch, cpc,
                   last_call, last_init, ret>>

\* The largest max_retries a caller passes (the default is 3).
MaxRetries == 3

\* What connect() may do: answer True (is_connected is set), answer False, or
\* raise.
ConnectResults == {"ok", "false", "raise"}

\* What post_content may do: return a result that reports success or one
\* that reports failure, or raise.
PostContentResults == {"ok", "fail", "raise"}

\* The platform object outside a call of post_with_retry.
RetryIdle(connected) ==
    [pc |-> "idle", max_retries |-> 0, attempt |-> 0, is_connected |-> connected,
     calls |-> 0, sleeps |-> <<>>, errors |-> <<>>, outcome |-> "none",
     value |-> None]

\* The wait of 2 * attempt seconds.
Backoff_linear(attempt) == 2 * attempt

\* 2 ** attempt, the seconds asyncio.sleep is called with.
Backoff(attempt) == 2 ^ attempt

\* A caller calls post_with_retry(content, max_retries); with a max_retries
\* of 0 the loop has no round and the function returns None.
post_with_retry(max_retries) ==
    /\ retry.pc \in {"idle", "done"}
    /\ retry' = IF max_retries = 0
                THEN [RetryIdle(retry.is_connected) EXCEPT
                        !.pc = "done", !.outcome = "returned"]
                ELSE [RetryIdle(retry.is_connected) EXCEPT
                        !.pc = "try", !.max_retries = max_retries]
    /\ UNCHANGED <<now, max_posts_per_day, content_themes, agent, analytics, jobs, tpc, tkept>>
    /\ UNCHANGED ctlVars
    /\ UNCHANGED jobVars

\* The try block of one round: connect() when not connected, then
\* post_content; its result is returned, an exception enters the handler.
\* A result is noted with the number of the post_content call that gave it,
\* an error with the number of the attempt that raised it.
retry_attempt(connect, result) ==
    /\ retry.pc = "try"
    /\ LET connects  == ~retry.is_connected
           connected == IF connects THEN connect = "ok" ELSE TRUE
       IN  retry' =
             IF connects /\ connect = "raise"
             THEN [retry EXCEPT
                     !.pc = "handle", !.is_connected = FALSE,
                     !.errors = Append(@, <<"connect error", retry.attempt>>)]
             ELSE IF result = "raise"
             THEN [retry EXCEPT
                     !.pc = "handle", !.is_connected = connected,
                     !.calls = @ + 1,
                     !.errors = Append(@, <<"post error", retry.attempt>>)]
             ELSE [retry EXCEPT
                     !.pc = "done", !.is_connected = connected,
                     !.calls = @ + 1, !.outcome = "returned",
                     !.value = <<result, retry.calls + 1>>]
    /\ UNCHANGED <<now, max_posts_per_day, content_themes, agent, analytics, jobs, tpc, tkept>>
    /\ UNCHANGED ctlVars
    /\ UNCHANGED jobVars

\* An except handler that returns None after the last attempt instead of
\* raising.
retry_handle_swallows ==
    /\ retry.pc = "handle"
    /\ retry' =
          IF retry.attempt = retry.max_retries - 1
          THEN [retry EXCEPT !.pc = "done", !.outcome = "returned"]
          ELSE [retry EXCEPT
                  !.pc = "try", !.attempt = @ + 1,
                  !.sleeps = Append(@, Backoff(retry.attempt))]
    /\ UNCHANGED <<now, max_posts_per_day, content_themes, agent, analytics, jobs, tpc, tkept>>
    /\ UNCHANGED ctlVars
    /\ UNCHANGED jobVars

\* The except handler: after the last attempt the exception is raised again
\* (a bare raise), otherwise asyncio.sleep(2 ** attempt) and the next round.
retry_handle ==
    /\ retry.pc = "handle"
    /\ retry' =
          IF retry.attempt = retry.max_retries - 1
          THEN [retry EXCEPT
                  !.pc = "done", !.outcome = "raised",
                  !.value = retry.errors[Len(retry.errors)]]
          ELSE [retry EXCEPT
                  !.pc = "try", !.attempt = @ + 1,
                  !.sleeps = Append(@, Backoff(retry.attempt))]
    /\ UNCHANGED <<now, max_posts_per_day, content_themes, agent, analytics, jobs, tpc, tkept>>
    /\ UNCHANGED ctlVars
    /\ UNCHANGED jobVars

----------------------------------------------------------------------------
(* The trigger table. *)

\* The next time of day hm (minutes after midnight) strictly after at.
NextDaily(at, hm) ==
    LET midnight == at - (at % HOURS_24)
    IN  IF midnight + hm > at THEN midnight + hm ELSE midnight + HOURS_24 + hm

\* The next_run the schedule library gives a job at time at: when the job
\* is registered and again whenever its function has returned.
NextRun(job, at) ==
    CASE job.kind = "batch"     -> at + BATCH_EVERY
      [] job.kind = "analytics" -> at + ANALYTICS_EVERY
      [] OTHER                  -> NextDaily(at, job.hour * 60 + job.minute)

\* schedule.every()...do(...): a job registered now.  runs counts the calls
\* of the job's function since next_run was set (not a field of the
\* program).
NewJob(kind, platform, theme, hour, minute) ==
    LET job == [kind |-> kind, platform |-> platform, theme |-> theme,
                hour |-> hour, minute |-> minute, next_run |-> 0, runs |-> 0]
    IN  [job EXCEPT !.next_run = NextRun(job, now)]

\* for theme in settings.content_themes: for hour in optimal_hours, for one
\* platform.
SlotsOf(platform) ==
    LET hours == optimal_times(platform)
    IN  [n \in 1..(Len(content_themes) * Len(hours)) |->
           [platform |-> platform,
            theme |-> content_themes[((n - 1) \div Len(hours)) + 1],
            hour |-> hours[((n - 1) % Len(hours)) + 1]]]

RECURSIVE PostingSlots(_, _)
\* for platform in self.platforms: the slots of the platforms of plats, in
\* the order of the list.
PostingSlots(plats, i) ==
    IF i > Len(PlatformOrder) THEN <<>>
    ELSE (IF PlatformOrder[i] \in plats THEN SlotsOf(PlatformOrder[i]) ELSE <<>>)
         \o PostingSlots(plats, i + 1)

\* The values random.randint(0, 59) may draw for the slots of plats.
MinuteChoices(plats, minutes) == [1..Len(PostingSlots(plats, 1)) -> minutes]

\* _setup_schedules without schedule.clear(): the jobs are added to those
\* of the table.
SetupSchedulesJobs_no_clear(plats, minute_of) ==
    LET slots == PostingSlots(plats, 1)
    IN  jobs
        \o [n \in 1..Len(slots) |->
              NewJob("post", slots[n].platform, slots[n].theme, slots[n].hour,
                     minute_of[n])]
        \o <<NewJob("batch", None, None, 0, 0),
             NewJob("analytics", None, None, 0, 0),
             NewJob("cleanup", None, None, CLEANUP_AT \div 60, CLEANUP_AT % 60)>>

\* The table _setup_schedules builds for a list of platforms: the old jobs
\* are cleared, minute_of[n] is the minute drawn for the n-th slot.
SetupSchedulesJobs(plats, minute_of) ==
    LET slots == PostingSlots(plats, 1)
    IN  [n \in 1..Len(slots) |->
           NewJob("post", slots[n].platform, slots[n].theme, slots[n].hour,
                  minute_of[n])]
        \o <<NewJob("batch", None, None, 0, 0),
             NewJob("analytics", None, None, 0, 0),
             NewJob("cleanup", None, None, CLEANUP_AT \div 60, CLEANUP_AT % 60)>>

\* job.should_run
should_run(k) == now >= jobs[k].next_run

\* sorted(...) of the jobs with the indices S: by next_run, jobs of equal
\* next_run in the order of the table.
SortedByNextRun(S) ==
    LET Before(x, y) == \/ jobs[x].next_run < jobs[y].next_run
                        \/ (jobs[x].next_run = jobs[y].next_run /\ x < y)
    IN  [i \in 1..Cardinality(S) |->
           CHOOSE k \in S : Cardinality({y \in S : Before(y, k)}) = i - 1]

\* A job as a thread holds it: k is its place in the table, 0 once the table
\* was rebuilt and the job is no longer in it.
JobRef(k) == [kind |-> jobs[k].kind, platform |-> jobs[k].platform,
              theme |-> jobs[k].theme, k |-> k]

NoJob == [kind |-> "none", platform |-> None, theme |-> None, k |-> 0]

\* What run_pending() collects when it is called: the jobs that should run,
\* sorted.
RunnableJobs ==
    LET order == SortedByNextRun({k \in 1..Len(jobs) : should_run(k)})
    IN  [i \in 1..Len(order) |-> JobRef(order[i])]

\* The table once thread t has called the function of its next runnable job.
JobStarted(t) ==
    LET k == Head(runnable[t]).k
    IN  IF k = 0 THEN jobs ELSE [jobs EXCEPT ![k].runs = @ + 1]

\* The table once the function of thread t's job has returned: the job gets
\* its next next_run.
JobReturned(t) ==
    LET k == tjob[t].k
    IN  IF k = 0 THEN jobs
        ELSE [jobs EXCEPT ![k].next_run = NextRun(jobs[k], now), ![k].runs = 0]

----------------------------------------------------------------------------
(* Threads. *)

\* Thread.is_alive()
is_alive(t) == tpc[t] \notin {"none", "exited"}

ActiveLoops == {t \in Threads : is_alive(t)}

FreeSlots == {t \in Threads : ~is_alive(t)}

Init ==
    /\ now = 0
    /\ max_posts_per_day \in 1..MaxCap
    /\ content_themes = <<THEME>>
    /\ is_running = FALSE
    /\ scheduler_thread = 0
    /\ handles_closed = FALSE
    /\ platforms = Platforms
    /\ jobs = <<>>
    /\ posting_history = [p \in Platforms |-> <<>>]
    /\ posts = <<>>
    /\ analytics = {}
    /\ retry = RetryIdle(FALSE)
    /\ agent = AgentIdle
    /\ tpc = [t \in Threads |-> "none"]
    /\ runnable = [t \in Threads |-> <<>>]
    /\ tjob = [t \in Threads |-> NoJob]
    /\ tpost = [t \in Threads |-> 0]
    /\ tbatch = [t \in Threads |-> <<>>]
    /\ tkept = [t \in Threads |-> <<>>]
    /\ cpc = "idle"
    /\ last_call = [op |-> "none", was_running |-> FALSE]
    /\ last_init = [result |-> "none", stopped |-> TRUE, auth |-> {}]
    /\ ret = [op |-> "none"]

----------------------------------------------------------------------------
(* The control surface. *)

\* The call is noted, with the value is_running had when it was made.
Called(op) == last_call' = [op |-> op, was_running |-> is_running]

\* The jobs a run_pending() in progress holds, once schedule.clear() has
\* taken them out of the table.
Detached(refs) == [i \in 1..Len(refs) |-> [refs[i] EXCEPT !.k = 0]]

\* initialize() assigning the platforms and clearing the table before it
\* tests whether a platform authenticated.
initialize_assigns_first(auth, minute_of) ==
    /\ cpc = "idle"
    /\ platforms' = auth
    /\ jobs' = IF auth = {} THEN <<>> ELSE SetupSchedulesJobs(auth, minute_of)
    /\ runnable' = [t \in Threads |-> Detached(runnable[t])]
    /\ tjob' = [t \in Threads |-> [tjob[t] EXCEPT !.k = 0]]
    /\ last_init' = [result |-> IF auth = {} THEN "false" ELSE "true",
                     stopped |-> ~is_running, auth |-> auth]
    /\ Called("initialize")
    /\ UNCHANGED <<now, max_posts_per_day, content_themes, analytics, retry, agent, tkept, is_running, scheduler_thread,
                   handles_closed, cpc, tpc, ret>>
    /\ UNCHANGED <<posting_history, posts, tpost, tbatch>>

\* initialize(): auth is the set of platforms whose authenticate() succeeds,
\* minute_of the minutes _setup_schedules draws.
initialize(auth, minute_of) ==
    /\ cpc = "idle"
    /\ IF auth = {}
       THEN /\ last_init' = [result |-> "false", stopped |-> ~is_running, auth |-> auth]
            /\ UNCHANGED <<platforms, jobs, runnable, tjob>>
       ELSE /\ platforms' = auth
            /\ jobs' = SetupSchedulesJobs(auth, minute_of)
            /\ runnable' = [t \in Threads |-> Detached(runnable[t])]
            /\ tjob' = [t \in Threads |-> [tjob[t] EXCEPT !.k = 0]]
            /\ last_init' = [result |-> "true", stopped |-> ~is_running, auth |-> auth]
    /\ Called("initialize")
    /\ UNCHANGED <<now, max_posts_per_day, content_themes, analytics, retry, agent, tkept, is_running, scheduler_thread,
                   handles_closed, cpc, tpc, ret>>
    /\ UNCHANGED <<posting_history, posts, tpost, tbatch>>

\* start() past its guard: the flag is set and a new polling thread is
\* started (in the lowest free thread slot).
start_spawn ==
    /\ cpc = "idle"
    /\ FreeSlots # {}
    /\ LET t == CHOOSE x \in FreeSlots : \A y \in FreeSlots : x <= y IN
         /\ is_running' = TRUE
         /\ scheduler_thread' = t
         /\ tpc' = [tpc EXCEPT ![t] = "check"]
         /\ runnable' = [runnable EXCEPT ![t] = <<>>]
         /\ tjob' = [tjob EXCEPT ![t] = NoJob]
         /\ tpost' = [tpost EXCEPT ![t] = 0]
         /\ tbatch' = [tbatch EXCEPT ![t] = <<>>]
    /\ Called("start")
    /\ UNCHANGED <<now, max_posts_per_day, content_themes, analytics, retry, agent, tkept, handles_closed, platforms, jobs,
                   posting_history, posts, cpc, last_init, ret>>

\* start() without the test of is_running.
start_no_guard == start_spawn

\* start()
start ==
    /\ cpc = "idle"
    /\ IF is_running
       THEN /\ Called("start")
            /\ UNCHANGED <<now, max_posts_per_day, content_themes, analytics, retry, agent, tkept, is_running, scheduler_thread,
                           handles_closed, platforms, jobs, tpc, cpc, last_init, ret>>
            /\ UNCHANGED jobVars
       ELSE start_spawn

\* stop() flipping the flag instead of clearing it.
stop_begin_toggle ==
    /\ cpc = "idle"
    /\ is_running' = ~is_running
    /\ cpc' = "stopping"
    /\ Called("stop")
    /\ UNCHANGED <<now, max_posts_per_day, content_themes, analytics, retry, agent, tkept, scheduler_thread, handles_closed,
                   platforms, jobs, tpc, last_init, ret>>
    /\ UNCHANGED jobVars

\* stop(), up to the join: the flag is cleared.
stop_begin ==
    /\ cpc = "idle"
    /\ is_running' = FALSE
    /\ cpc' = "stopping"
    /\ Called("stop")
    /\ UNCHANGED <<now, max_posts_per_day, content_themes, analytics, retry, agent, tkept, scheduler_thread, handles_closed,
                   platforms, jobs, tpc, last_init, ret>>
    /\ UNCHANGED jobVars

\* stop() with join() in place of join(timeout=5): it goes on only when the
\* thread has exited.
stop_finish_join_unbounded ==
    /\ cpc = "stopping"
    /\ scheduler_thread # 0 => ~is_alive(scheduler_thread)
    /\ cpc' = "idle"
    /\ handles_closed' = TRUE
    /\ UNCHANGED <<now, max_posts_per_day, content_themes, analytics, retry, agent, tkept, is_running, scheduler_thread,
                   platforms, jobs, tpc, last_call, last_init, ret>>
    /\ UNCHANGED jobVars

\* stop(), from the join on: join(timeout=5) has returned, because there was
\* nothing to join, the thread has exited or the 5 seconds are over; the
\* handles are closed.
stop_finish ==
    /\ cpc = "stopping"
    /\ cpc' = "idle"
    /\ handles_closed' = TRUE
    /\ UNCHANGED <<now, max_posts_per_day, content_themes, analytics, retry, agent, tkept, is_running, scheduler_thread,
                   platforms, jobs, tpc, last_call, last_init, ret>>
    /\ UNCHANGED jobVars

\* How many entries get_status lists under next_jobs.
STATUS_NEXT_JOBS == 5

\* get_status() with next_jobs in the order of the table.
get_status_unsorted ==
    /\ cpc = "idle"
    /\ ret' = [op |-> "get_status",
               is_running |-> is_running,
               authenticated_platforms |-> last_init.auth,
               scheduled_jobs |-> Len(jobs),
               posting_history |-> [p \in DOMAIN posting_history |->
                                      Len(posting_history[p])],
               next_jobs |-> [i \in 1..(IF Len(jobs) < STATUS_NEXT_JOBS
                                        THEN Len(jobs) ELSE STATUS_NEXT_JOBS) |->
                                jobs[i].next_run]]
    /\ UNCHANGED <<now, max_posts_per_day, content_themes, analytics, retry, agent, tkept, is_running, scheduler_thread,
                   handles_closed, platforms, jobs, tpc, cpc, last_call, last_init>>
    /\ UNCHANGED jobVars

\* get_status(): the snapshot it returns.
get_status ==
    /\ cpc = "idle"
    /\ LET order == SortedByNextRun(1..Len(jobs))
           shown == IF Len(order) < STATUS_NEXT_JOBS
                    THEN Len(order) ELSE STATUS_NEXT_JOBS
       IN  ret' = [op |-> "get_status",
                   is_running |-> is_running,
                   authenticated_platforms |-> last_init.auth,
                   scheduled_jobs |-> Len(jobs),
                   posting_history |-> [p \in DOMAIN posting_history |->
                                          Len(posting_history[p])],
                   next_jobs |-> [i \in 1..shown |-> jobs[order[i]].next_run]]
    /\ UNCHANGED <<now, max_posts_per_day, content_themes, analytics, retry, agent, tkept, is_running, scheduler_thread,
                   handles_closed, platforms, jobs, tpc, cpc, last_call, last_init>>
    /\ UNCHANGED jobVars

----------------------------------------------------------------------------
(* _run_scheduler, the polling loop of thread t. *)

\* while self.is_running: ... schedule.run_pending() collects the due jobs.
loop_check(t) ==
    /\ tpc[t] = "check"
    /\ IF is_running
       THEN /\ tpc' = [tpc EXCEPT ![t] = "pending"]
            /\ runnable' = [runnable EXCEPT ![t] = RunnableJobs]
       ELSE /\ tpc' = [tpc EXCEPT ![t] = "exited"]
            /\ UNCHANGED runnable
    /\ UNCHANGED <<now, max_posts_per_day, content_themes, analytics, retry, agent, tkept, jobs, posting_history, posts,
                   tjob, tpost, tbatch>>
    /\ UNCHANGED ctlVars

\* schedule.run_pending() has run every job it collected; time.sleep(60)
\* begins.
loop_sleep(t) ==
    /\ tpc[t] = "pending"
    /\ runnable[t] = <<>>
    /\ tpc' = [tpc EXCEPT ![t] = "sleeping"]
    /\ UNCHANGED <<now, max_posts_per_day, content_themes, analytics, retry, agent, tkept, jobs>>
    /\ UNCHANGED ctlVars
    /\ UNCHANGED jobVars

\* An exception that leaves run_pending() ends the thread (no handler).
loop_raise_unhandled(t) ==
    /\ tpc[t] = "pending"
    /\ tpc' = [tpc EXCEPT ![t] = "exited"]
    /\ runnable' = [runnable EXCEPT ![t] = <<>>]
    /\ UNCHANGED <<now, max_posts_per_day, content_themes, analytics, retry, agent, tkept, jobs, posting_history, posts,
                   tjob, tpost, tbatch>>
    /\ UNCHANGED ctlVars

\* An exception leaves schedule.run_pending(): the jobs it has not yet run
\* are dropped and the handler of the loop is entered.
loop_raise(t) ==
    /\ tpc[t] = "pending"
    /\ tpc' = [tpc EXCEPT ![t] = "except"]
    /\ runnable' = [runnable EXCEPT ![t] = <<>>]
    /\ UNCHANGED <<now, max_posts_per_day, content_themes, analytics, retry, agent, tkept, jobs, posting_history, posts,
                   tjob, tpost, tbatch>>
    /\ UNCHANGED ctlVars

\* except Exception: logger.error(...); time.sleep(60) begins.
loop_except(t) ==
    /\ tpc[t] = "except"
    /\ tpc' = [tpc EXCEPT ![t] = "sleeping"]
    /\ UNCHANGED <<now, max_posts_per_day, content_themes, analytics, retry, agent, tkept, jobs>>
    /\ UNCHANGED ctlVars
    /\ UNCHANGED jobVars

\* time.sleep(60) returns.
loop_wake(t) ==
    /\ tpc[t] = "sleeping"
    /\ tpc' = [tpc EXCEPT ![t] = "check"]
    /\ UNCHANGED <<now, max_posts_per_day, content_themes, analytics, retry, agent, tkept, jobs>>
    /\ UNCHANGED ctlVars
    /\ UNCHANGED jobVars

----------------------------------------------------------------------------
(* The Post table (DatabaseManager). *)

\* The status that marks, in the model, a row that was deleted: the ids of the
\* rows that remain do not change.
DELETED == "deleted"

\* create_post: a new row; status and created_at take the column defaults
\* "draft" and func.now().  published is not a column: it counts how often
\* the row was handed to the publisher (up to MaxPublishes).
NewPost(content, platform, theme, scheduled_time) ==
    [content |-> content, platform |-> platform, theme |-> theme,
     status |-> "draft", scheduled_time |-> scheduled_time,
     posted_time |-> NULL_TIME, platform_post_id |-> None,
     error_message |-> None, created_at |-> now, published |-> 0]

\* update_post_status on a row: the id and the message are stored only when
\* they are truthy (neither None nor ""), posted_time only with "posted"; a
\* row that is no longer found is not changed.
UpdatePostStatus(post, status, platform_post_id, error_message) ==
    IF post.status = DELETED THEN post
    ELSE
    [post EXCEPT
       !.status = status,
       !.platform_post_id = IF platform_post_id \notin {None, ""}
                            THEN platform_post_id ELSE @,
       !.error_message = IF error_message \notin {None, ""}
                         THEN error_message ELSE @,
       !.posted_time = IF status = "posted" THEN now ELSE @]

\* The rows get_scheduled_posts selects from: status "scheduled", due.
ScheduledDue ==
    {i \in 1..Len(posts) : /\ posts[i].status = "scheduled"
                           /\ posts[i].scheduled_time <= now}

----------------------------------------------------------------------------
(* The rate limiter. *)

\* The comprehension of _should_post with <= in place of <.
PruneHistory_inclusive(history, at) ==
    SelectSeq(history, LAMBDA post_time : at - post_time <= HOURS_24)

\* The comprehension of _should_post: the timestamps that are kept.
PruneHistory(history, at) ==
    SelectSeq(history, LAMBDA post_time : at - post_time < HOURS_24)

\* The value _should_post returns for a pruned history.
WithinLimit(history) == Len(history) < max_posts_per_day

\* _update_posting_history appending the timestamp twice.
UpdatePostingHistory_twice(history, platform) ==
    [history EXCEPT ![platform] = Append(Append(@, now), now)]

\* _update_posting_history
UpdatePostingHistory(history, platform) ==
    [history EXCEPT ![platform] = Append(@, now)]

----------------------------------------------------------------------------
(* The next optimal time. *)

RECURSIVE FirstAfter_inclusive(_, _, _)
\* The scan with hour >= current_hour.
FirstAfter_inclusive(hours, i, current_hour) ==
    IF i > Len(hours) THEN 0
    ELSE IF hours[i] >= current_hour THEN i
    ELSE FirstAfter_inclusive(hours, i + 1, current_hour)

RECURSIVE FirstAfter(_, _, _)
\* for hour in optimal_hours: if hour > current_hour: ... break
\* (0 stands for next_hour = None)
FirstAfter(hours, i, current_hour) ==
    IF i > Len(hours) THEN 0
    ELSE IF hours[i] > current_hour THEN i
    ELSE FirstAfter(hours, i + 1, current_hour)

\* _get_next_optimal_time without now = now + timedelta(days=1).
GetNextOptimalTime_same_day(platform, at, minute) ==
    LET optimal_hours == optimal_times(platform)
        current_hour  == (at \div 60) % 24
        midnight      == at - (at % HOURS_24)
        i             == FirstAfter(optimal_hours, 1, current_hour)
    IN  IF i # 0
        THEN midnight + optimal_hours[i] * 60 + minute
        ELSE midnight + optimal_hours[1] * 60 + minute

\* _get_next_optimal_time with minute the value random.randint drew.
GetNextOptimalTime(platform, at, minute) ==
    LET optimal_hours == optimal_times(platform)
        current_hour  == (at \div 60) % 24
        midnight      == at - (at % HOURS_24)
        i             == FirstAfter(optimal_hours, 1, current_hour)
    IN  IF i # 0
        THEN midnight + optimal_hours[i] * 60 + minute
        ELSE midnight + HOURS_24 + optimal_hours[1] * 60 + minute

\* The seconds of the clock reading of a call that are followed.
SecondSamples == {0, 59}

\* now.replace(...) that leaves the seconds of the clock reading in place.
ReplaceSecond_kept(second) == second

\* now.replace(..., second=0, microsecond=0): the part of the result below
\* the minute.
ReplaceSecond(second) == 0

\* A call of _get_next_optimal_time(platform) now, `second` seconds into the
\* minute; what it returns is noted, the minutes in value and the part below
\* the minute in second.
get_next_optimal_time(platform, minute, second) ==
    /\ ret' = [op |-> "next_optimal_time", platform |-> platform, at |-> now,
               value |-> GetNextOptimalTime(platform, now, minute),
               second |-> ReplaceSecond(second)]
    /\ UNCHANGED <<now, max_posts_per_day, content_themes, analytics, retry, agent, tkept, is_running, scheduler_thread,
                   handles_closed, platforms, jobs, tpc, cpc, last_call, last_init>>
    /\ UNCHANGED jobVars

----------------------------------------------------------------------------
(* The content generator. *)

\* What generate_content may meet: the AI services answer, or all their
\* calls raise and random.choice picks the c-th fallback entry.
Generations == {<<"ok", 1>>} \cup {<<"fail", c>> : c \in 1..3}

\* generate_content whose handler returns no text when the AI calls raise.
GenerateContent_no_fallback(platform, theme, gen) ==
    [content |-> IF gen[1] = "ok" THEN AI_TEXT ELSE "",
     platform |-> platform, theme |-> theme]

\* fallback_content.get(theme, fallback_content["motivation"])
FallbackEntries(theme) ==
    IF theme \in FallbackThemes THEN fallback_content(theme)
    ELSE fallback_content("motivation")

\* generate_content: the text of the AI, or, when its calls raise, what
\* _get_fallback_content returns.
GenerateContent(platform, theme, gen) ==
    [content |-> IF gen[1] = "ok" THEN AI_TEXT
                 ELSE FallbackEntries(theme)[gen[2]],
     platform |-> platform, theme |-> theme]

----------------------------------------------------------------------------
(* _execute_post *)

\* The text update_post_status receives as error_message.
ErrorText(result) ==
    CASE result = "fail"        -> "error"
      [] result = "fail_empty"  -> ""
      [] result = "raise"       -> "exception"
      [] result = "raise_empty" -> ""
      [] OTHER                  -> None

\* The row after _execute_post, for the publisher's answer and the number of
\* status updates that raise.
ExecutedPost(post, result, dbfail) ==
    CASE result \in {"ok", "ok_noid"} ->
           IF dbfail = 0
           THEN UpdatePostStatus(post, "posted",
                                 IF result = "ok" THEN "id" ELSE None, None)
           ELSE IF dbfail = 1
           THEN UpdatePostStatus(post, "failed", None, "database error")
           ELSE post
      [] result \in {"fail", "fail_empty"} ->
           IF dbfail = 0
           THEN UpdatePostStatus(post, "failed", None, ErrorText(result))
           ELSE IF dbfail = 1
           THEN UpdatePostStatus(post, "failed", None, "database error")
           ELSE post
      [] OTHER ->
           IF dbfail = 0
           THEN UpdatePostStatus(post, "failed", None, ErrorText(result))
           ELSE post

\* Whether _execute_post reaches _update_posting_history.
RecordsPost(result, dbfail) == result \in {"ok", "ok_noid"} /\ dbfail = 0

\* Whether an exception leaves _execute_post: the update_post_status of its
\* handler raises.
ExecuteRaises(result, dbfail) ==
    \/ dbfail = 2
    \/ (dbfail = 1 /\ result \in {"raise", "raise_empty"})

\* social_manager.post_to_platform(post.platform, ...) was called for the
\* row.
Handed(post) ==
    [post EXCEPT !.published = IF @ < MaxPublishes THEN @ + 1 ELSE @]

\* _execute_post on row id: the table and the history afterwards.
ExecutePost(id, result, dbfail) ==
    /\ posts' = [posts EXCEPT ![id] = Handed(ExecutedPost(@, result, dbfail))]
    /\ posting_history' = IF RecordsPost(result, dbfail)
                          THEN UpdatePostingHistory(posting_history, posts[id].platform)
                          ELSE posting_history

----------------------------------------------------------------------------
(* _schedule_post, the dispatch job, run by polling thread t. *)

\* run_pending() calls the next job it collected, a posting trigger: the
\* rate check opens the job, the history of the trigger's platform is
\* pruned and written back.
dispatch_check(t) ==
    /\ tpc[t] = "pending"
    /\ runnable[t] # <<>>
    /\ Head(runnable[t]).kind = "post"
    /\ LET job  == Head(runnable[t])
           kept == PruneHistory(posting_history[job.platform], now)
       IN  /\ posting_history' = [posting_history EXCEPT ![job.platform] = kept]
           /\ tpc' = [tpc EXCEPT ![t] = IF WithinLimit(kept) THEN "d_fetch" ELSE "d_skip"]
           /\ tjob' = [tjob EXCEPT ![t] = job]
    /\ jobs' = JobStarted(t)
    /\ runnable' = [runnable EXCEPT ![t] = Tail(@)]
    /\ UNCHANGED <<now, max_posts_per_day, content_themes, analytics, retry, agent, tkept, posts, tpost, tbatch>>
    /\ UNCHANGED ctlVars

\* The same rate check in two steps, between which another thread may run:
\* platform_history is read and filtered into a new list ...
should_post_read(t) ==
    /\ tpc[t] = "pending"
    /\ runnable[t] # <<>>
    /\ Head(runnable[t]).kind = "post"
    /\ LET job == Head(runnable[t])
       IN  /\ tkept' = [tkept EXCEPT ![t] = PruneHistory(posting_history[job.platform], now)]
           /\ tjob' = [tjob EXCEPT ![t] = job]
    /\ tpc' = [tpc EXCEPT ![t] = "d_prune"]
    /\ jobs' = JobStarted(t)
    /\ runnable' = [runnable EXCEPT ![t] = Tail(@)]
    /\ UNCHANGED <<now, max_posts_per_day, content_themes, analytics, retry, agent, posting_history, posts, tpost, tbatch>>
    /\ UNCHANGED ctlVars

\* ... and the new list is written back and measured against the limit.
should_post_write(t) ==
    /\ tpc[t] = "d_prune"
    /\ posting_history' = [posting_history EXCEPT ![tjob[t].platform] = tkept[t]]
    /\ tpc' = [tpc EXCEPT ![t] = IF WithinLimit(tkept[t]) THEN "d_fetch" ELSE "d_skip"]
    /\ tkept' = [tkept EXCEPT ![t] = <<>>]
    /\ UNCHANGED <<now, max_posts_per_day, content_themes, analytics, retry, agent, posts, jobs, runnable,
                   tjob, tpost, tbatch>>
    /\ UNCHANGED ctlVars

\* A dispatch job that goes on to the query after should_post said no.
dispatch_skip_falls_through(t) ==
    /\ tpc[t] = "d_skip"
    /\ tpc' = [tpc EXCEPT ![t] = "d_fetch"]
    /\ UNCHANGED <<now, max_posts_per_day, content_themes, analytics, retry, agent, tkept, posting_history, posts, runnable,
                   jobs, tjob, tpost, tbatch>>
    /\ UNCHANGED ctlVars

\* "Skipping post ... due to rate limiting": the job returns.
dispatch_skip(t) ==
    /\ tpc[t] = "d_skip"
    /\ tpc' = [tpc EXCEPT ![t] = "pending"]
    /\ jobs' = JobReturned(t)
    /\ tjob' = [tjob EXCEPT ![t] = NoJob]
    /\ UNCHANGED <<now, max_posts_per_day, content_themes, analytics, retry, agent, tkept, posting_history, posts, runnable,
                   tpost, tbatch>>
    /\ UNCHANGED ctlVars

\* get_scheduled_posts(limit=1): a due row (the query has no ORDER BY), or
\* none; failed says that the query raises, which ends the job.
dispatch_fetch(t, failed) ==
    /\ tpc[t] = "d_fetch"
    /\ IF failed
       THEN /\ tpc' = [tpc EXCEPT ![t] = "pending"]
            /\ jobs' = JobReturned(t)
            /\ tjob' = [tjob EXCEPT ![t] = NoJob]
            /\ UNCHANGED tpost
       ELSE IF ScheduledDue # {}
       THEN /\ \E i \in ScheduledDue : tpost' = [tpost EXCEPT ![t] = i]
            /\ tpc' = [tpc EXCEPT ![t] = "d_publish"]
            /\ UNCHANGED <<jobs, tjob>>
       ELSE /\ tpc' = [tpc EXCEPT ![t] = "d_generate"]
            /\ UNCHANGED <<jobs, tjob, tpost>>
    /\ UNCHANGED <<now, max_posts_per_day, content_themes, analytics, retry, agent, tkept, posting_history, posts, runnable, tbatch>>
    /\ UNCHANGED ctlVars

\* generate_content for the trigger's platform and theme (the AI's text or
\* the fallback) and the create_post of _create_and_execute_post;
\* create_post raises when failed, which ends the job, and always when the
\* table holds cap rows.
dispatch_create(t, gen, failed, cap) ==
    /\ tpc[t] = "d_generate"
    /\ IF failed \/ Len(posts) >= cap
       THEN /\ tpc' = [tpc EXCEPT ![t] = "pending"]
            /\ jobs' = JobReturned(t)
            /\ tjob' = [tjob EXCEPT ![t] = NoJob]
            /\ UNCHANGED <<posts, tpost>>
       ELSE /\ LET content_data == GenerateContent(tjob[t].platform, tjob[t].theme, gen)
               IN  posts' = Append(posts, NewPost(content_data.content,
                                                  content_data.platform,
                                                  content_data.theme, now))
            /\ tpost' = [tpost EXCEPT ![t] = Len(posts) + 1]
            /\ tpc' = [tpc EXCEPT ![t] = "d_publish"]
            /\ UNCHANGED <<jobs, tjob>>
    /\ UNCHANGED <<now, max_posts_per_day, content_themes, analytics, retry, agent, tkept, posting_history, runnable, tbatch>>
    /\ UNCHANGED ctlVars

\* _execute_post without the handlers of its callers: an exception that
\* leaves it leaves the job and run_pending().
dispatch_execute_propagates(t, result, dbfail) ==
    /\ tpc[t] = "d_publish"
    /\ ExecutePost(tpost[t], result, dbfail)
    /\ IF ExecuteRaises(result, dbfail)
       THEN /\ tpc' = [tpc EXCEPT ![t] = "except"]
            /\ runnable' = [runnable EXCEPT ![t] = <<>>]
            /\ UNCHANGED jobs
       ELSE /\ tpc' = [tpc EXCEPT ![t] = "pending"]
            /\ jobs' = JobReturned(t)
            /\ UNCHANGED runnable
    /\ tjob' = [tjob EXCEPT ![t] = NoJob]
    /\ tpost' = [tpost EXCEPT ![t] = 0]
    /\ UNCHANGED <<now, max_posts_per_day, content_themes, analytics, retry, agent, tkept, tbatch>>
    /\ UNCHANGED ctlVars

\* _execute_post on the row the job holds; an exception that leaves it is
\* caught and logged by _schedule_post or _create_and_execute_post; the job
\* returns.
dispatch_execute(t, result, dbfail) ==
    /\ tpc[t] = "d_publish"
    /\ ExecutePost(tpost[t], result, dbfail)
    /\ tpc' = [tpc EXCEPT ![t] = "pending"]
    /\ jobs' = JobReturned(t)
    /\ tjob' = [tjob EXCEPT ![t] = NoJob]
    /\ tpost' = [tpost EXCEPT ![t] = 0]
    /\ UNCHANGED <<now, max_posts_per_day, content_themes, analytics, retry, agent, tkept, runnable, tbatch>>
    /\ UNCHANGED ctlVars

----------------------------------------------------------------------------
(* _generate_content_batch, the batch job, run by polling thread t. *)

\* count_per_combination of the call in _generate_content_batch.
COUNT_PER_COMBINATION == 2

\* for theme in themes: for _ in range(count_per_combination), for one
\* platform.
PiecesOf(platform) ==
    [n \in 1..(Len(content_themes) * COUNT_PER_COMBINATION) |->
       [platform |-> platform,
        theme |-> content_themes[((n - 1) \div COUNT_PER_COMBINATION) + 1]]]

RECURSIVE BatchPieces(_, _)
\* generate_batch_content: the (platform, theme) of the pieces it returns,
\* in the order of the loops.
BatchPieces(plats, i) ==
    IF i > Len(PlatformOrder) THEN <<>>
    ELSE (IF PlatformOrder[i] \in plats THEN PiecesOf(PlatformOrder[i]) ELSE <<>>)
         \o BatchPieces(plats, i + 1)

\* run_pending() calls the next job it collected, the batch trigger: the
\* batch is generated (self.platforms is never empty).
batch_generate(t) ==
    /\ tpc[t] = "pending"
    /\ runnable[t] # <<>>
    /\ Head(runnable[t]).kind = "batch"
    /\ tpc' = [tpc EXCEPT ![t] = "b_store"]
    /\ tbatch' = [tbatch EXCEPT ![t] = BatchPieces(platforms, 1)]
    /\ tjob' = [tjob EXCEPT ![t] = Head(runnable[t])]
    /\ jobs' = JobStarted(t)
    /\ runnable' = [runnable EXCEPT ![t] = Tail(@)]
    /\ UNCHANGED <<now, max_posts_per_day, content_themes, analytics, retry, agent, tkept, posting_history, posts, tpost>>
    /\ UNCHANGED ctlVars

\* The loop over content_batch planning every piece for the optimal time of
\* the first platform.
batch_store_one_time(t, gen, minute, dbfail, cap) ==
    /\ tpc[t] = "b_store"
    /\ tbatch[t] # <<>>
    /\ LET piece == Head(tbatch[t])
           content_data == GenerateContent(piece.platform, piece.theme, gen)
           post == NewPost(content_data.content, content_data.platform,
                           content_data.theme,
                           GetNextOptimalTime(PlatformOrder[1], now, minute))
           last == \/ dbfail > 0
                   \/ Len(posts) >= cap
                   \/ Tail(tbatch[t]) = <<>>
       IN  /\ posts' = IF dbfail = 2 \/ Len(posts) >= cap THEN posts
                       ELSE IF dbfail = 1 THEN Append(posts, post)
                       ELSE Append(posts, UpdatePostStatus(post, "scheduled", None, None))
           /\ tbatch' = [tbatch EXCEPT ![t] = IF last THEN <<>> ELSE Tail(@)]
           /\ tpc' = [tpc EXCEPT ![t] = IF last THEN "pending" ELSE "b_store"]
           /\ jobs' = IF last THEN JobReturned(t) ELSE jobs
           /\ tjob' = [tjob EXCEPT ![t] = IF last THEN NoJob ELSE @]
    /\ UNCHANGED <<now, max_posts_per_day, content_themes, analytics, retry, agent, tkept, posting_history, runnable, tpost>>
    /\ UNCHANGED ctlVars

\* One round of the loop over content_batch: create_post, then
\* update_post_status(post.id, "scheduled").  dbfail = 1: the update raises
\* (the row stays a draft), dbfail = 2: create_post raises; either ends the
\* job.  create_post always raises when the table holds cap rows.
batch_store(t, gen, minute, dbfail, cap) ==
    /\ tpc[t] = "b_store"
    /\ tbatch[t] # <<>>
    /\ LET piece == Head(tbatch[t])
           content_data == GenerateContent(piece.platform, piece.theme, gen)
           post == NewPost(content_data.content, content_data.platform,
                           content_data.theme,
                           GetNextOptimalTime(content_data.platform, now, minute))
           last == \/ dbfail > 0
                   \/ Len(posts) >= cap
                   \/ Tail(tbatch[t]) = <<>>
       IN  /\ posts' = IF dbfail = 2 \/ Len(posts) >= cap THEN posts
                       ELSE IF dbfail = 1 THEN Append(posts, post)
                       ELSE Append(posts, UpdatePostStatus(post, "scheduled", None, None))
           /\ tbatch' = [tbatch EXCEPT ![t] = IF last THEN <<>> ELSE Tail(@)]
           /\ tpc' = [tpc EXCEPT ![t] = IF last THEN "pending" ELSE "b_store"]
           /\ jobs' = IF last THEN JobReturned(t) ELSE jobs
           /\ tjob' = [tjob EXCEPT ![t] = IF last THEN NoJob ELSE @]
    /\ UNCHANGED <<now, max_posts_per_day, content_themes, analytics, retry, agent, tkept, posting_history, runnable, tpost>>
    /\ UNCHANGED ctlVars

----------------------------------------------------------------------------------------------------------------------------------------
(* _collect_analytics and _cleanup_old_data, run by polling thread t. *)

\* timedelta(days=7), in minutes.
RETENTION == 7 * 24 * 60

\* The rows _collect_analytics queries: posted within the last 24 hours, with
\* the id of the platform stored.
RecentPosts(rows, at) ==
    {i \in 1..Len(rows) : /\ rows[i].status = "posted"
                          /\ rows[i].posted_time >= at - HOURS_24
                          /\ rows[i].platform_post_id # None}

\* _collect_analytics: record_analytics for every recent post the platform
\* answers for with metrics (answered), nothing when it answers with none.
\* The rows of one call of record_analytics are one sample.
CollectAnalytics(samples, rows, at, answered) ==
    IF answered
    THEN samples \cup {[post_id |-> i, platform |-> rows[i].platform,
                        recorded_at |-> at] : i \in RecentPosts(rows, at)}
    ELSE samples

\* The filter of _cleanup_old_data with <= in place of <.
OldFailed_inclusive(rows, at) ==
    {i \in 1..Len(rows) : /\ rows[i].status = "failed"
                          /\ rows[i].created_at <= at - RETENTION}

\* The rows _cleanup_old_data selects: failed and created before the cutoff.
OldFailed(rows, at) ==
    {i \in 1..Len(rows) : /\ rows[i].status = "failed"
                          /\ rows[i].created_at < at - RETENTION}

\* _cleanup_old_data: the selected rows are deleted.
CleanupOldData(rows, at) ==
    [i \in 1..Len(rows) |->
       IF i \in OldFailed(rows, at) THEN [rows[i] EXCEPT !.status = DELETED]
       ELSE rows[i]]

\* run_pending() calls the next job it collected, the analytics or the
\* cleanup trigger.
maintenance_begin(t) ==
    /\ tpc[t] = "pending"
    /\ runnable[t] # <<>>
    /\ Head(runnable[t]).kind \in {"analytics", "cleanup"}
    /\ tpc' = [tpc EXCEPT ![t] = "m_run"]
    /\ tjob' = [tjob EXCEPT ![t] = Head(runnable[t])]
    /\ jobs' = JobStarted(t)
    /\ runnable' = [runnable EXCEPT ![t] = Tail(@)]
    /\ UNCHANGED <<now, max_posts_per_day, content_themes, analytics, retry, agent, tkept, posting_history, posts, tpost, tbatch>>
    /\ UNCHANGED ctlVars

\* The job does its work on the tables and returns (its exceptions are
\* caught and logged).
maintenance_end(t, answered) ==
    /\ tpc[t] = "m_run"
    /\ tpc' = [tpc EXCEPT ![t] = "pending"]
    /\ jobs' = JobReturned(t)
    /\ analytics' = IF tjob[t].kind = "analytics"
                    THEN CollectAnalytics(analytics, posts, now, answered)
                    ELSE analytics
    /\ posts' = IF tjob[t].kind = "cleanup" THEN CleanupOldData(posts, now)
                ELSE posts
    /\ tjob' = [tjob EXCEPT ![t] = NoJob]
    /\ UNCHANGED <<now, max_posts_per_day, content_themes, agent, retry, posting_history, runnable, tkept,
                   tpost, tbatch>>
    /\ UNCHANGED ctlVars

----------------
(* The manual dispatch of the front ends: post_content of the web dashboard *)
(* and _manual_post of the CLI create a row and call _execute_post on it.   *)

\* The text the caller supplies.
USER_TEXT == "user text"

manual_post(platform, result, dbfail, cap) ==
    /\ cpc = "idle"
    /\ Len(posts) < cap
    /\ LET id == Len(posts) + 1
           created == Append(posts, NewPost(USER_TEXT, platform, None, now))
       IN  /\ posts' = [created EXCEPT ![id] = Handed(ExecutedPost(@, result, dbfail))]
           /\ posting_history' = IF RecordsPost(result, dbfail)
                                 THEN UpdatePostingHistory(posting_history, platform)
                                 ELSE posting_history
    /\ UNCHANGED <<now, max_posts_per_day, content_themes, analytics, retry, agent, tkept, jobs, tpc, runnable, tjob, tpost, tbatch>>
    /\ UNCHANGED ctlVars

----------------------------------------------------------------------------
(* The clock. *)

tick(d) ==
    /\ now + d <= MaxTicks * 13 * 60
    /\ now' = now + d
    /\ UNCHANGED <<max_posts_per_day, content_themes, analytics, retry, agent, tkept, jobs, tpc>>
    /\ UNCHANGED ctlVars
    /\ UNCHANGED jobVars

\* The clock is next read at a later time, `reading`.
advance_to(reading) ==
    /\ now < reading
    /\ now' = reading
    /\ UNCHANGED <<max_posts_per_day, content_themes, analytics, retry, agent, tkept, jobs, tpc>>
    /\ UNCHANGED ctlVars
    /\ UNCHANGED jobVars

----------------------------------------------------------------------------
\* The steps of the polling loops.
NextLoop ==
    \/ \E t \in Threads : loop_check(t)
    \/ \E t \in Threads : loop_sleep(t)
    \/ \E t \in Threads : loop_wake(t)

\* An exception in a poll tick and its handling.
NextLoopRaise ==
    \/ \E t \in Threads : loop_raise(t)
    \/ \E t \in Threads : loop_except(t)

\* The steps of the control surface and of the polling loops; every trigger
\* is registered at minute 0.
NextCtl ==
    \/ \E auth \in SUBSET Platforms :
         \E minute_of \in MinuteChoices(auth, {0}) : initialize(auth, minute_of)
    \/ start
    \/ stop_begin
    \/ stop_finish
    \/ NextLoop

\* The steps of the dispatch job, for the publisher answers, the database
\* failures and the generator outcomes that are followed.
NextDispatch(results, dbfails, gens, cap) ==
    \/ \E t \in Threads : dispatch_check(t)
    \/ \E t \in Threads : dispatch_skip(t)
    \/ \E t \in Threads, failed \in {f > 0 : f \in dbfails} : dispatch_fetch(t, failed)
    \/ \E t \in Threads, gen \in gens, failed \in {f > 0 : f \in dbfails} :
         dispatch_create(t, gen, failed, cap)
    \/ \E t \in Threads, r \in results, f \in dbfails : dispatch_execute(t, r, f)

\* The steps of the batch job.
NextBatch(dbfails, gens, minutes, cap) ==
    \/ \E t \in Threads : batch_generate(t)
    \/ \E t \in Threads, gen \in gens, m \in minutes, f \in dbfails :
         batch_store(t, gen, m, f, cap)

\* The steps of the analytics and cleanup jobs.
NextMaintenanceWith(answers) ==
    \/ \E t \in Threads : maintenance_begin(t)
    \/ \E t \in Threads, answered \in answers : maintenance_end(t, answered)

\* The same while the platforms answer with no metrics.
NextMaintenance == NextMaintenanceWith({FALSE})

\* The steps of every job run_pending() may call.
NextJobs(results, dbfails, gens, minutes, cap) ==
    \/ NextDispatch(results, dbfails, gens, cap)
    \/ NextBatch(dbfails, gens, minutes, cap)
    \/ NextMaintenance

NextManual(results, dbfails, cap) ==
    \E p \in Platforms, r \in results, f \in dbfails : manual_post(p, r, f, cap)

NextClock(steps) == \E d \in steps : tick(d)

\* The control surface alone: the clock stands still, no trigger comes due.
SpecCtl == Init /\ [][NextCtl]_vars

\* The state after initialize() with every platform authenticated, followed
\* by start(), at midnight: one polling loop about to test the flag, the
\* triggers registered at minute 0, an empty table; themes is
\* settings.content_themes.
Running(themes) ==
    /\ now = 0
    /\ max_posts_per_day \in 1..MaxCap
    /\ content_themes = themes
    /\ is_running = TRUE
    /\ scheduler_thread = 1
    /\ handles_closed = FALSE
    /\ platforms = Platforms
    /\ jobs = SetupSchedulesJobs(Platforms, [n \in 1..Len(PostingSlots(Platforms, 1)) |-> 0])
    /\ posting_history = [p \in Platforms |-> <<>>]
    /\ posts = <<>>
    /\ analytics = {}
    /\ retry = RetryIdle(FALSE)
    /\ agent = AgentIdle
    /\ tpc = [t \in Threads |-> IF t = 1 THEN "check" ELSE "none"]
    /\ runnable = [t \in Threads |-> <<>>]
    /\ tjob = [t \in Threads |-> NoJob]
    /\ tpost = [t \in Threads |-> 0]
    /\ tbatch = [t \in Threads |-> <<>>]
    /\ tkept = [t \in Threads |-> <<>>]
    /\ cpc = "idle"
    /\ last_call = [op |-> "start", was_running |-> FALSE]
    /\ last_init = [result |-> "true", stopped |-> TRUE, auth |-> Platforms]
    /\ ret = [op |-> "none"]

InitRunning == Running(<<THEME>>)

\* The rate limiter: the polling loop of a running scheduler with its jobs,
\* and manual dispatches; the publisher answers success or failure, the AI
\* services answer, the database does not fail.
NextRate ==
    \/ NextLoop
    \/ NextJobs({"ok", "fail"}, {0}, {<<"ok", 1>>}, {0}, MaxPosts)
    \/ NextManual({"ok", "fail"}, {0}, MaxPosts)
    \/ NextClock(ClockSteps)

SpecRate == InitRunning /\ [][NextRate]_vars

\* The life of a Post row: the polling loop of a running scheduler with its
\* jobs, and manual dispatches; every publisher answer and every database
\* failure is followed.
NextLife ==
    \/ NextLoop
    \/ NextJobs(PublishResults, DbFailures, {<<"ok", 1>>}, {0}, MaxPostsLife)
    \/ NextManual(PublishResults, DbFailures, MaxPostsLife)
    \/ NextClock({12 * 60})

SpecLife == InitRunning /\ [][NextLife]_vars

\* The control surface together with the jobs of the polling loops it
\* starts, from construction on: the publisher answers success or failure,
\* the database does not fail, one platform authenticates.
NextLoops ==
    \/ \E minute_of \in MinuteChoices({PlatformOrder[1]}, {0}) :
         initialize({PlatformOrder[1]}, minute_of)
    \/ start
    \/ stop_begin
    \/ stop_finish
    \/ NextLoop
    \/ NextJobs({"ok", "fail"}, {0}, {<<"ok", 1>>}, {0}, MaxPostsLoops)
    \/ NextClock({12 * 60})

SpecLoops == Init /\ [][NextLoops]_vars

\* The steps thread t takes in NextStop.
ThreadStop(t) ==
    \/ loop_check(t)
    \/ loop_sleep(t)
    \/ loop_wake(t)
    \/ dispatch_check(t)
    \/ dispatch_skip(t)
    \/ dispatch_fetch(t, FALSE)
    \/ dispatch_create(t, <<"ok", 1>>, FALSE, MaxPostsLoops)
    \/ \E r \in {"ok", "fail"} : dispatch_execute(t, r, 0)
    \/ batch_generate(t)
    \/ batch_store(t, <<"ok", 1>>, 0, 0, MaxPostsLoops)
    \/ maintenance_begin(t)
    \/ maintenance_end(t, FALSE)

\* Stopping a running scheduler whose polling loop runs its jobs: the
\* publisher answers success or failure, the database does not fail.
NextStop ==
    \/ stop_begin
    \/ stop_finish
    \/ NextLoop
    \/ NextJobs({"ok", "fail"}, {0}, {<<"ok", 1>>}, {0}, MaxPostsLoops)
    \/ NextClock({12 * 60})

\* stop() goes on by itself once it was called (the join is bounded);
\* nothing is assumed about the pace of the polling thread.
SpecStop == InitRunning /\ [][NextStop]_vars /\ WF_vars(stop_finish)

\* Stopping and starting again.
NextRestart ==
    \/ start
    \/ NextStop

\* Stopping and starting again, with polling threads that are scheduled
\* again and again: a thread that can take a step eventually takes one.
SpecRestartFair ==
    /\ InitRunning
    /\ [][NextRestart]_vars
    /\ WF_vars(stop_finish)
    /\ \A t \in Threads : WF_vars(ThreadStop(t))

\* A running scheduler whose poll ticks may raise: the polling loop with
\* its jobs, and stop().
NextRaise ==
    \/ stop_begin
    \/ stop_finish
    \/ NextLoop
    \/ NextLoopRaise
    \/ NextJobs({"ok"}, {0}, {<<"ok", 1>>}, {0}, MaxPostsLoops)
    \/ NextClock({12 * 60})

SpecRaise == InitRunning /\ [][NextRaise]_vars

\* The dispatch job under every publisher answer and every database
\* failure, in the polling loop of a running scheduler; the batch job stores
\* a row as "scheduled" or fails to create it, so that a draft is a row of
\* the dispatch job.
NextDispatchFaults ==
    \/ NextLoop
    \/ NextDispatch(PublishResults, DbFailures, {<<"ok", 1>>}, MaxPostsLife)
    \/ NextBatch({0, 2}, {<<"ok", 1>>}, {0}, MaxPostsLife)
    \/ NextMaintenance
    \/ NextClock({12 * 60})

SpecDispatchFaults == InitRunning /\ [][NextDispatchFaults]_vars

\* The generations in which every call of the AI services raises.
FailedGenerations == {gen \in Generations : gen[1] = "fail"}

\* A running scheduler configured with one theme, any of ThemeSamples.
InitAiDown == \E theme \in ThemeSamples : Running(<<theme>>)

\* The polling loop with its jobs while the AI services are down: the
\* publisher answers success, the batch job stores a row or fails to
\* create it.
NextAiDown ==
    \/ NextLoop
    \/ NextDispatch({"ok"}, {0}, FailedGenerations, MaxPostsLife)
    \/ NextBatch({0, 2}, FailedGenerations, {0}, MaxPostsLife)
    \/ NextMaintenance
    \/ NextClock({12 * 60})

SpecAiDown == InitAiDown /\ [][NextAiDown]_vars

\* The times of day at which _get_next_optimal_time is called: every hour,
\* at its first, a middle and its last minute.
TimesOfDay == {h * 60 + m : h \in 0..23, m \in {0, 30, 59}}

\* The platforms it is called for: the keys of optimal_times and one
\* platform that is not a key.
QueryPlatforms ==
    {"twitter", "facebook", "instagram", "linkedin", "tiktok", "pinterest"}

\* A constructed scheduler at any time of day.
InitOptimal ==
    /\ now \in TimesOfDay
    /\ max_posts_per_day \in 1..MaxCap
    /\ content_themes = <<THEME>>
    /\ is_running = FALSE
    /\ scheduler_thread = 0
    /\ handles_closed = FALSE
    /\ platforms = Platforms
    /\ jobs = <<>>
    /\ posting_history = [p \in Platforms |-> <<>>]
    /\ posts = <<>>
    /\ analytics = {}
    /\ retry = RetryIdle(FALSE)
    /\ agent = AgentIdle
    /\ tpc = [t \in Threads |-> "none"]
    /\ runnable = [t \in Threads |-> <<>>]
    /\ tjob = [t \in Threads |-> NoJob]
    /\ tpost = [t \in Threads |-> 0]
    /\ tbatch = [t \in Threads |-> <<>>]
    /\ tkept = [t \in Threads |-> <<>>]
    /\ cpc = "idle"
    /\ last_call = [op |-> "none", was_running |-> FALSE]
    /\ last_init = [result |-> "none", stopped |-> TRUE, auth |-> {}]
    /\ ret = [op |-> "none"]

\* Calls of _get_next_optimal_time.
NextOptimal ==
    \E p \in QueryPlatforms, m \in MinuteSamples, sec \in SecondSamples :
       get_next_optimal_time(p, m, sec)

SpecOptimal == InitOptimal /\ [][NextOptimal]_vars

\* get_status() called at any moment of a running scheduler whose polling
\* loop runs its jobs, and of a stopped one.
NextStatus ==
    \/ get_status
    \/ stop_begin
    \/ stop_finish
    \/ NextLoop
    \/ NextJobs({"ok"}, {0}, {<<"ok", 1>>}, {0}, MaxPostsLoops)
    \/ NextClock({12 * 60})

SpecStatus == InitRunning /\ [][NextStatus]_vars

\* get_status() called while the histories of the rate limiter age: manual
\* dispatches and the polling loop with its jobs, the publisher answers
\* success, the clock is sampled as in ClockSteps.
NextStatusAge ==
    \/ get_status
    \/ NextLoop
    \/ NextJobs({"ok"}, {0}, {<<"ok", 1>>}, {0}, MaxPostsLoops)
    \/ NextManual({"ok"}, {0}, MaxPostsLoops)
    \/ NextClock(ClockSteps)

SpecStatusAge == InitRunning /\ [][NextStatusAge]_vars

\* The generations a batch is planned with: the AI services answer, or
\* every call of them raises.
BatchGenerations == {<<"ok", 1>>, <<"fail", 1>>}

\* The batch planner: the polling loop of a running scheduler with its jobs;
\* the AI services answer or raise, the minute of a planned time is sampled,
\* the publisher answers success, the database does not fail.
NextBatchPlan ==
    \/ NextLoop
    \/ NextJobs({"ok"}, {0}, BatchGenerations, MinuteSamples, MaxPostsBatch)
    \/ NextClock({12 * 60})

SpecBatchPlan == InitRunning /\ [][NextBatchPlan]_vars

\* The clock readings the cleanup is followed at: the retention period and
\* half a day more after the start.
CleanupReadings == {RETENTION, RETENTION + 12 * 60}

\* The cleanup of old rows: the polling loop of a running scheduler with its
\* jobs, and manual dispatches; the publisher answers success or failure,
\* the platforms answer the analytics job with metrics or with none, the
\* database does not fail.
NextCleanup ==
    \/ NextLoop
    \/ NextDispatch({"ok", "fail"}, {0}, {<<"ok", 1>>}, MaxPosts)
    \/ NextBatch({0}, {<<"ok", 1>>}, {0}, MaxPosts)
    \/ NextMaintenanceWith({TRUE, FALSE})
    \/ NextManual({"ok", "fail"}, {0}, MaxPosts)
    \/ \E reading \in CleanupReadings : advance_to(reading)

SpecCleanup == InitRunning /\ [][NextCleanup]_vars

\* Publishing: the polling loop of a running scheduler with its jobs, and
\* manual dispatches; every answer of the publisher is followed, the database
\* does not fail.
NextPublish ==
    \/ NextLoop
    \/ NextJobs(PublishResults, {0}, {<<"ok", 1>>}, {0}, MaxPostsLife)
    \/ NextManual(PublishResults, {0}, MaxPostsLife)
    \/ NextClock({12 * 60})

SpecPublish == InitRunning /\ [][NextPublish]_vars

\* A platform object, connected or not, of a scheduler that was constructed.
InitRetry ==
    /\ now = 0
    /\ max_posts_per_day \in 1..MaxCap
    /\ content_themes = <<THEME>>
    /\ is_running = FALSE
    /\ scheduler_thread = 0
    /\ handles_closed = FALSE
    /\ platforms = Platforms
    /\ jobs = <<>>
    /\ posting_history = [p \in Platforms |-> <<>>]
    /\ posts = <<>>
    /\ analytics = {}
    /\ retry \in {RetryIdle(c) : c \in BOOLEAN}
    /\ agent = AgentIdle
    /\ tpc = [t \in Threads |-> "none"]
    /\ runnable = [t \in Threads |-> <<>>]
    /\ tjob = [t \in Threads |-> NoJob]
    /\ tpost = [t \in Threads |-> 0]
    /\ tbatch = [t \in Threads |-> <<>>]
    /\ tkept = [t \in Threads |-> <<>>]
    /\ cpc = "idle"
    /\ last_call = [op |-> "none", was_running |-> FALSE]
    /\ last_init = [result |-> "none", stopped |-> TRUE, auth |-> {}]
    /\ ret = [op |-> "none"]

\* An agent at 9 p.m. of day 0, with the platforms its configuration holds
\* credentials for and a daily limit, beside a scheduler that was constructed.
InitAgent ==
    /\ now = 0
    /\ max_posts_per_day \in 1..MaxCap
    /\ content_themes = <<THEME>>
    /\ is_running = FALSE
    /\ scheduler_thread = 0
    /\ handles_closed = FALSE
    /\ platforms = Platforms
    /\ jobs = <<>>
    /\ posting_history = [p \in Platforms |-> <<>>]
    /\ posts = <<>>
    /\ analytics = {}
    /\ retry = RetryIdle(FALSE)
    /\ agent \in {[AgentIdle EXCEPT !.utcnow = 21, !.max_daily_posts = m,
                                    !.platforms = ps] :
                    m \in 1..MaxDailyPosts, ps \in AgentPlatformChoices}
    /\ tpc = [t \in Threads |-> "none"]
    /\ runnable = [t \in Threads |-> <<>>]
    /\ tjob = [t \in Threads |-> NoJob]
    /\ tpost = [t \in Threads |-> 0]
    /\ tbatch = [t \in Threads |-> <<>>]
    /\ tkept = [t \in Threads |-> <<>>]
    /\ cpc = "idle"
    /\ last_call = [op |-> "none", was_running |-> FALSE]
    /\ last_init = [result |-> "none", stopped |-> TRUE, auth |-> {}]
    /\ ret = [op |-> "none"]

\* The posting job, manual posts and the passing of hours (one hour, or the
\* twelve hours to the next morning).
NextAgent ==
    \/ posting_job
    \/ \E outcome \in {"ok", "raise"} : post_to_platform(outcome)
    \/ \E p \in Platforms, outcome \in {"ok", "raise"} : agent_manual_post(p, outcome)
    \/ \E d \in {1, 12} : agent_tick(d)

SpecAgent == InitAgent /\ [][NextAgent]_vars

\* Calls of post_with_retry, one after another, and their rounds.
NextRetry ==
    \/ \E max_retries \in 0..MaxRetries : post_with_retry(max_retries)
    \/ \E c \in ConnectResults, r \in PostContentResults : retry_attempt(c, r)
    \/ retry_handle

SpecRetry == InitRetry /\ [][NextRetry]_vars

\* The rate limiter shared by two threads: the polling loop of a running
\* scheduler with its jobs, whose rate check may be interleaved with the
\* manual dispatches of the front end; the publisher answers success, the
\* database fails for the batch job or not at all.
NextRace ==
    \/ NextLoop
    \/ \E t \in Threads : should_post_read(t)
    \/ \E t \in Threads : should_post_write(t)
    \/ NextDispatch({"ok"}, {0}, {<<"ok", 1>>}, MaxPostsLife)
    \/ NextBatch({0, 2}, {<<"ok", 1>>}, {0}, MaxPostsLife)
    \/ NextMaintenance
    \/ NextManual({"ok"}, {0}, MaxPostsLife)
    \/ NextClock({12 * 60})

SpecRace == InitRunning /\ [][NextRace]_vars

Next ==
    \/ \E auth \in SUBSET Platforms :
         \E minute_of \in MinuteChoices(auth, MinuteSamples) : initialize(auth, minute_of)
    \/ start
    \/ stop_begin
    \/ stop_finish
    \/ get_status
    \/ \E p \in Platforms, m \in MinuteSamples, sec \in SecondSamples :
         get_next_optimal_time(p, m, sec)
    \/ NextLoop
    \/ NextLoopRaise
    \/ NextJobs(PublishResults, DbFailures, Generations, MinuteSamples, MaxPosts)
    \/ NextManual(PublishResults, DbFailures, MaxPosts)
    \/ NextClock(ClockSteps)

Spec == Init /\ [][Next]_vars

----------------------------------------------------------------------------
(* Properties of the rate limiter (SpecRate). *)

\* The posts of a platform that became posted within the 24 hours before now.
PostedInWindow(p) ==
    {i \in 1..Len(posts) : /\ posts[i].platform = p
                           /\ posts[i].status = "posted"
                           /\ now - posts[i].posted_time < HOURS_24}

\* C1: for every platform, the number of posts that became posted within the
\* trailing 24 hours never exceeds max_posts_per_day, whatever scheduled,
\* immediate and manual dispatches have run.
C1_RateLimitInvariant ==
    \A p \in Platforms : Cardinality(PostedInWindow(p)) <= max_posts_per_day

RECURSIVE KeepYounger(_, _, _)
\* The timestamps of h, in order, whose age at time at is below age.
KeepYounger(h, at, age) ==
    IF h = <<>> THEN <<>>
    ELSE (IF at - Head(h) < age THEN <<Head(h)>> ELSE <<>>)
         \o KeepYounger(Tail(h), at, age)

\* Thread t makes the _should_post call that opens a dispatch job.
ShouldPostStep(t) == tpc[t] = "pending" /\ tpc'[t] \in {"d_fetch", "d_skip"}

\* What a _should_post call of thread t must do when the timestamps it keeps
\* are those younger than age: the platform's history becomes the kept
\* timestamps, the answer is true exactly when fewer than max_posts_per_day
\* are kept; with a limit of 2 and three timestamps inside the window the
\* answer is false, and when every timestamp is 25 hours old or older it is
\* true.
ShouldPostContract(t, age) ==
    LET p      == tjob'[t].platform
        before == posting_history[p]
        after  == posting_history'[p]
        answer == tpc'[t] = "d_fetch"
    IN  /\ after = KeepYounger(before, now, age)
        /\ answer <=> Len(after) < max_posts_per_day
        /\ (max_posts_per_day = 2 /\ Len(KeepYounger(before, now, age)) >= 3)
             => ~answer
        /\ (\A i \in 1..Len(before) : now - before[i] >= 25 * 60) => answer

----------------------------------------------------------------------------
(* Properties of the Post rows (SpecLife, SpecLoops). *)

\* C3: for every Post row, status is posted if and only if posted_time and
\* platform_post_id are set, and status is failed if and only if
\* error_message is set, for every answer of the publisher.
C3_StatusInvariant ==
    \A i \in 1..Len(posts) :
        /\ posts[i].status = "posted"
             <=> (posts[i].posted_time # NULL_TIME /\ posts[i].platform_post_id # None)
        /\ posts[i].status = "failed" <=> posts[i].error_message # None

\* C4: every status change of a Post row is draft -> scheduled,
\* scheduled -> posted or scheduled -> failed: a row reaches posted or failed
\* only from scheduled.
C4_Lifecycle ==
    [][\A i \in 1..Len(posts) :
          posts'[i].status # posts[i].status
            => <<posts[i].status, posts'[i].status>> \in
                 {<<"draft", "scheduled">>, <<"scheduled", "posted">>,
                  <<"scheduled", "failed">>}]_vars

\* C5: posted and failed are terminal: no step changes the status of a row
\* that is posted or failed, and no job picks a failed row for publishing.
C5_TerminalStatus ==
    [][/\ \A i \in 1..Len(posts) :
             posts[i].status \in {"posted", "failed"}
               => posts'[i].status = posts[i].status
       /\ \A t \in Threads :
             (tpost'[t] # 0 /\ tpost'[t] # tpost[t])
               => posts'[tpost'[t]].status # "failed"]_vars

\* A dispatch job of thread t that passed the rate check ends.
DispatchEnds(t) ==
    tpc[t] \in {"d_fetch", "d_generate", "d_publish"} /\ tpc'[t] = "pending"

\* C6: every dispatch attempt that passes the rate check ends with a Post row
\* in status posted or failed: it never ends without a row, nor with its row
\* left in draft or scheduled.
C6_DispatchEndsPostedOrFailed ==
    [][\A t \in Threads :
          DispatchEnds(t)
            => /\ tpc[t] = "d_publish"
               /\ posts'[tpost[t]].status \in {"posted", "failed"}]_vars

----------------------------------------------------------------------------
(* Properties of the control surface (SpecCtl). *)

\* C7: when initialize() has returned false on a stopped scheduler, is_running
\* stays false until a later initialize() succeeds, whatever is called.
C7_StoppedAfterFailedInitialize ==
    (last_init.result = "false" /\ last_init.stopped) => ~is_running

\* A step that is a call of start() on a running scheduler.
StartWhileRunning ==
    is_running /\ last_call'.op = "start" /\ last_call' # last_call

\* C8: start() on a running scheduler changes no state and spawns no
\* additional polling loop.
C8_StartIdempotent ==
    [][StartWhileRunning
         => /\ UNCHANGED <<now, max_posts_per_day, content_themes, analytics, retry, agent, tkept, cpc, last_init>>
            /\ UNCHANGED schedState
            /\ ActiveLoops' = ActiveLoops]_vars

\* start() was called on a running scheduler.
C8_StartedWhileRunning ==
    last_call = [op |-> "start", was_running |-> TRUE] /\ is_running

\* C9: at most one polling loop is active at any time, and the scheduler is
\* either stopped or running, as is_running says.
C9_SingleLoop ==
    /\ Cardinality(ActiveLoops) <= 1
    /\ is_running \in BOOLEAN

\* A step of a stop() call made on a scheduler that a stop() has stopped.
StopOfStopped ==
    /\ cpc' # cpc
    /\ ~is_running
    /\ handles_closed
    /\ (cpc = "idle" \/ ~last_call.was_running)

\* C10: stop() is idempotent: every completed stop() leaves the scheduler
\* stopped with its handles released, a stop() on a scheduler that is
\* already in that state changes nothing of it, and stop() always completes
\* (no error ends it).
C10_StopIdempotent ==
    /\ []((last_call.op = "stop" /\ cpc = "idle") => (~is_running /\ handles_closed))
    /\ [](cpc = "stopping" => ENABLED stop_finish)
    /\ [][StopOfStopped
            => UNCHANGED <<is_running, scheduler_thread, handles_closed, platforms,
                           jobs, posting_history, posts, tpc, runnable, tjob, tpost,
                           tbatch>>]_vars

\* stop() was called on a stopped scheduler and has returned.
C10_StoppedTwice ==
    /\ last_call = [op |-> "stop", was_running |-> FALSE]
    /\ cpc = "idle"
    /\ handles_closed
    /\ ~is_running

----------------------------------------------------------------------------
(* Properties of stop() (SpecStop, SpecRestartFair). *)

\* A step of stop().
StopStep == cpc' # cpc

\* The jobs in flight are left alone by stop(), and they end.
JobInFlightCompletes ==
    /\ [][StopStep => UNCHANGED <<tpc, runnable, tjob, tpost, tbatch, posts>>]_vars
    /\ [][\A t \in Threads :
             (tpc[t] = "d_publish" /\ tpc'[t] # "d_publish")
               => posts'[tpost[t]].status \in {"posted", "failed"}]_vars
    /\ \A t \in Threads : (cpc = "stopping" /\ tjob[t] # NoJob) ~> (tjob[t] = NoJob)

\* A loop that has observed the cleared flag exits without another tick.
NoTickAfterClearedFlag ==
    [][\A t \in Threads :
         (tpc[t] = "check" /\ ~is_running /\ tpc'[t] # tpc[t])
           => tpc'[t] = "exited"]_vars

\* A polling loop that is alive when stop() is called exits.
LoopExitsAfterStop ==
    (cpc = "stopping" /\ is_alive(1)) ~> ~is_alive(1)

\* C11: stop() is cooperative: a job in flight when stop() is called runs to
\* completion (its record reaches posted or failed), no new poll tick starts
\* once the loop has observed the cleared flag, and the polling loop
\* eventually exits.
C11_StopCooperative ==
    /\ JobInFlightCompletes
    /\ NoTickAfterClearedFlag
    /\ LoopExitsAfterStop

\* C12: stop() always terminates: once called it returns, also while the
\* polling loop sleeps or a job is in flight.
C12_StopTerminates == (cpc = "stopping") ~> (cpc = "idle")

\* stop() has returned while the polling thread it joined is still inside a
\* job.
C12_ReturnedDuringJob ==
    /\ cpc = "idle"
    /\ last_call.op = "stop"
    /\ scheduler_thread # 0
    /\ tpc[scheduler_thread] \in {"d_fetch", "d_generate", "d_publish", "b_store"}
----------------------------------------------------------------------------
(* Properties of the polling loop (SpecLoops, SpecRaise). *)

\* Thread t calls the function of a job of the table.
JobStarts(t) == tjob[t] = NoJob /\ tjob'[t] # NoJob /\ tjob'[t].k # 0

\* The function of thread t's job, a job of the table, returns.
JobEnds(t) == tjob[t] # NoJob /\ tjob[t].k # 0 /\ tjob'[t] = NoJob

\* C13: a trigger due at T fires exactly once, in the first poll tick at or
\* after T: never before its due time, never a second time before its next
\* due time, and a tick ends only when every trigger it found due has fired;
\* when it has fired its next due time lies in the future (missed periods
\* are not replayed).
C13_FiresOncePerDueTime ==
    [][\A t \in Threads :
         /\ JobStarts(t) =>
               /\ now >= jobs[tjob'[t].k].next_run
               /\ jobs[tjob'[t].k].runs = 0
         /\ JobEnds(t) => jobs'[tjob[t].k].next_run > now
         /\ (tpc[t] = "check" /\ tpc'[t] = "pending") =>
               \A k \in 1..Len(jobs) :
                  should_run(k) <=> \E i \in 1..Len(runnable'[t]) : runnable'[t][i].k = k
         /\ (tpc[t] = "pending" /\ tpc'[t] = "sleeping") => runnable[t] = <<>>]_vars

\* C14: an exception raised in a poll tick is caught and the loop goes on
\* (its handler sleeps, then the loop tests the flag again); while
\* is_running stays true a polling loop never terminates.
C14_LoopSurvivesException ==
    [][\A t \in Threads :
         /\ (is_alive(t) /\ ~is_alive(t)') => ~is_running
         /\ (tpc[t] = "pending" /\ tpc'[t] # "pending" /\ tjob'[t] = NoJob)
               => tpc'[t] \in {"sleeping", "except"}
         /\ (tpc[t] = "except" /\ tpc'[t] # "except") => tpc'[t] = "sleeping"]_vars

\* The handler of a polling loop is running while the scheduler runs and
\* jobs the tick had found due were dropped by the exception.
C14_ExceptionCaught ==
    \E t \in Threads :
       /\ tpc[t] = "except"
       /\ is_running
       /\ \E k \in 1..Len(jobs) : should_run(k)

----------------------------------------------------------------------------
(* Properties of the dispatch job (SpecDispatchFaults, SpecAiDown). *)

\* C15: no exception inside a dispatch job reaches the polling loop, the
\* failure of the status update in the error handler included: the job
\* moves through its own steps and returns to run_pending(), which
\* reschedules its trigger.
C15_DispatchContainsExceptions ==
    [][\A t \in Threads :
         tjob[t].kind = "post" =>
           /\ tpc'[t] \in {"d_skip", "d_fetch", "d_generate", "d_publish", "pending"}
           /\ tjob'[t] = NoJob =>
                 /\ tpc'[t] = "pending"
                 /\ tjob[t].k # 0 =>
                       /\ jobs'[tjob[t].k].runs = 0
                       /\ jobs'[tjob[t].k].next_run > now]_vars

\* A dispatch job has returned to a live polling loop and left the row it
\* created a draft: the publish failed and so did every status update, the
\* one of the error handler included.
C15_HandlerFailureContained ==
    /\ is_alive(1)
    /\ \E id \in 1..Len(posts) :
          /\ posts[id].status = "draft"
          /\ \A t \in Threads : tpost[t] # id

\* The dispatch job of thread t generates content and creates its row.
DispatchCreates(t) == tpc[t] = "d_generate" /\ tpc'[t] = "d_publish"

\* The dispatch job of thread t leaves content generation while the table
\* takes another row.
DispatchGenerated(t) ==
    tpc[t] = "d_generate" /\ tpc'[t] # "d_generate" /\ Len(posts) < MaxPostsLife

\* The original statement of C16: the content is an entry of the table
\* fallback_content holds under the trigger's theme.
C16_FallbackOfOwnTheme ==
    [][\A t \in Threads :
         DispatchCreates(t) =>
           /\ tjob[t].theme \in FallbackThemes
           /\ \E c \in 1..3 :
                 posts'[tpost'[t]].content = fallback_content(tjob[t].theme)[c]]_vars

\* C16: while every AI call fails, a dispatch for (platform, theme) that
\* comes to generate content creates a Post row of that platform and theme
\* whose content is non-empty and is an entry of the fallback table of the
\* theme, or of the table of "motivation" when the theme has none, and the
\* job does not raise.
C16_FallbackContent ==
    [][\A t \in Threads :
         /\ DispatchGenerated(t) => DispatchCreates(t)
         /\ DispatchCreates(t) =>
               LET post == posts'[tpost'[t]]
                   table == IF tjob[t].theme \in FallbackThemes
                            THEN tjob[t].theme ELSE "motivation"
               IN  /\ post.content # ""
                   /\ \E c \in 1..3 : post.content = fallback_content(table)[c]
                   /\ post.platform = tjob[t].platform
                   /\ post.theme = tjob[t].theme]_vars

\* A dispatch job has created a row with fallback content for a theme that
\* has no fallback table.
C16_FallbackForUnknownTheme ==
    \E t \in Threads :
       /\ tpc[t] = "d_publish"
       /\ tjob[t].theme \notin FallbackThemes
       /\ posts[tpost[t]].status = "draft"
       /\ posts[tpost[t]].theme = tjob[t].theme
       /\ posts[tpost[t]].content = "motivation 1"

----------------------------------------------------------------------------
(* Properties of _get_next_optimal_time (SpecOptimal). *)

\* C17: what _get_next_optimal_time returns lies strictly after the time of
\* the call, for every platform, one without an entry in optimal_times
\* included, and every time of day.
C17_StrictlyAfterNow ==
    ret.op = "next_optimal_time" => ret.value > ret.at

\* The call was made in the last hour of the day for a platform without an
\* entry in optimal_times, and has returned.
C17_LateCallUnknownPlatform ==
    /\ ret.op = "next_optimal_time"
    /\ ret.platform = "pinterest"
    /\ ret.at = 23 * 60 + 59

\* The optimal hours of the platform of the last call that are greater than
\* the hour of the call.
LaterHours ==
    LET hours == optimal_times(ret.platform)
    IN  {hours[i] : i \in {j \in 1..Len(hours) : hours[j] > (ret.at \div 60) % 24}}

\* C18: _get_next_optimal_time returns, on the day of the call, the smallest
\* optimal hour of the platform that is greater than the hour of the call
\* when there is one, and otherwise the platform's first optimal hour on the
\* following day (twitter: 18:30 gives 20 h the same day, 21:00 gives 8 h
\* the next day).
C18_NextOptimalHour ==
    ret.op = "next_optimal_time" =>
      LET day  == ret.at \div HOURS_24
          hour == (ret.value \div 60) % 24
      IN  /\ IF LaterHours # {}
             THEN /\ ret.value \div HOURS_24 = day
                  /\ hour \in LaterHours
                  /\ \A h \in LaterHours : hour <= h
             ELSE /\ ret.value \div HOURS_24 = day + 1
                  /\ hour = optimal_times(ret.platform)[1]
          /\ (ret.platform = "twitter" /\ ret.at = 18 * 60 + 30)
                => ret.value \div 60 = 20
          /\ (ret.platform = "twitter" /\ ret.at = 21 * 60)
                => ret.value \div 60 = 24 + 8

\* The call for twitter at 12:00, an optimal hour of twitter, has returned
\* a time in the hour 17.
C18_CallAtOptimalHour ==
    /\ ret.op = "next_optimal_time"
    /\ ret.platform = "twitter"
    /\ ret.at = 12 * 60
    /\ ret.value \div 60 = 17

----------------------------------------------------------------------------
(* Properties of the trigger table and of get_status (SpecCtl, SpecStatus). *)

\* The places of the table that hold a job of the kind.
JobsOfKind(kind) == {k \in 1..Len(jobs) : jobs[k].kind = kind}

\* The places of the table that hold the posting trigger of a platform, a
\* theme and an hour.
PostingJobs(platform, theme, hour) ==
    {k \in JobsOfKind("post") : /\ jobs[k].platform = platform
                                /\ jobs[k].theme = theme
                                /\ jobs[k].hour = hour}

\* C19: after every successful initialize() the active platforms are the
\* platforms that authenticated, and the trigger table holds one posting
\* trigger for each active platform, theme and optimal hour of the platform,
\* one batch, one analytics and one cleanup trigger, and nothing else: no
\* trigger of an earlier initialize(), none for a platform that failed.
C19_TriggerTable ==
    last_init.result = "true" =>
      /\ platforms = last_init.auth
      /\ \A p \in platforms, i \in 1..Len(content_themes) :
            \A h \in 1..Len(optimal_times(p)) :
               Cardinality(PostingJobs(p, content_themes[i], optimal_times(p)[h])) = 1
      /\ \A k \in JobsOfKind("post") :
            /\ jobs[k].platform \in last_init.auth
            /\ \E i \in 1..Len(content_themes) : jobs[k].theme = content_themes[i]
            /\ \E h \in 1..Len(optimal_times(jobs[k].platform)) :
                  jobs[k].hour = optimal_times(jobs[k].platform)[h]
      /\ \A kind \in {"batch", "analytics", "cleanup"} :
            Cardinality(JobsOfKind(kind)) = 1
      /\ \A k \in 1..Len(jobs) :
            jobs[k].kind \in {"post", "batch", "analytics", "cleanup"}

\* initialize() has succeeded with facebook alone authenticated: the table
\* holds the four posting triggers of facebook and the three others.
C19_InitializedOnePlatform ==
    /\ last_call.op = "initialize"
    /\ last_init.result = "true"
    /\ last_init.auth = {"facebook"}
    /\ Len(jobs) = 4 + 3

\* C20: get_status() is a read-only snapshot: it changes nothing of the
\* scheduler (running flag, trigger table, rate limiter history, table of
\* posts, threads), reports the running flag and the number of registered
\* triggers, and lists at most five triggers in ascending order of next run
\* time: its i-th entry is the i-th earliest next run time of the table.
C20_StatusSnapshot ==
    [][ret' # ret =>
         /\ UNCHANGED <<now, max_posts_per_day, content_themes, analytics, retry, agent, tkept, schedState,
                        cpc, last_call, last_init>>
         /\ ret'.op = "get_status"
         /\ ret'.is_running = is_running
         /\ ret'.scheduled_jobs = Len(jobs)
         /\ \A p \in Platforms :
               ret'.posting_history[p] = Len(posting_history[p])
         /\ Len(ret'.next_jobs) <= 5
         /\ Len(ret'.next_jobs) <= Len(jobs)
         /\ Len(jobs) >= 5 => Len(ret'.next_jobs) = 5
         /\ \A i \in 1..(Len(ret'.next_jobs) - 1) :
               ret'.next_jobs[i] <= ret'.next_jobs[i + 1]
         /\ \A i \in 1..Len(ret'.next_jobs) :
               /\ Cardinality({k \in 1..Len(jobs) :
                                 jobs[k].next_run < ret'.next_jobs[i]}) <= i - 1
               /\ Cardinality({k \in 1..Len(jobs) :
                                 jobs[k].next_run <= ret'.next_jobs[i]}) >= i]_vars

\* get_status() has returned five of the eleven triggers of a running
\* scheduler after jobs have run: the first it lists is not the first of
\* the table.
C20_StatusAfterJobs ==
    /\ ret.op = "get_status"
    /\ ret.is_running
    /\ ret.scheduled_jobs = 11
    /\ Len(ret.next_jobs) = 5
    /\ now > 0
    /\ ret.next_jobs[1] > now
    /\ ret.next_jobs[1] # jobs[1].next_run

\* The posts recorded for platform p no more than `age` minutes ago.
RecordedInWindow(p, age) ==
    {i \in 1..Len(posting_history[p]) : now - posting_history[p][i] <= age}

\* C21: the per-platform post count get_status() reports is the rolling
\* count: the number of posts recorded for the platform within the trailing
\* 24 hours at the time of the call (a post exactly 24 hours old may be
\* counted or not).
C21_StatusRollingCount ==
    [][ret' # ret =>
         \A p \in Platforms :
            ret'.posting_history[p] \in
                { Cardinality(RecordedInWindow(p, HOURS_24 - 1)),
                  Cardinality(RecordedInWindow(p, HOURS_24)) }]_vars

\* The number of pieces of platform p and theme th in a batch.
RequestsFor(batch, p, th) ==
    Cardinality({n \in 1..Len(batch) : batch[n].platform = p /\ batch[n].theme = th})

\* The themes of the settings.
ThemesOf(themes) == {themes[n] : n \in 1..Len(themes)}

\* Thread t takes a step of a batch run that stores a piece while the table
\* has room.
BatchStores(t) ==
    /\ tpc[t] = "b_store"
    /\ tbatch'[t] # tbatch[t]
    /\ Len(posts) < MaxPostsBatch

\* The rows the batch run of thread t has stored after the step: one per
\* piece the run has consumed.
RowsOfRun(t, before) ==
    LET all  == BatchPieces(platforms, 1)
        done == Len(all) - Len(before) + 1
    IN  {Len(posts') - done + n : n \in 1..done}

\* C22: a batch-planner run issues 2 generation requests for every (active
\* platform, theme) pair and no other; each generated piece becomes exactly
\* one new row, with the platform and theme of the piece, status scheduled
\* and scheduled_time the next optimal time of the piece's own platform; the
\* rows of the run are still scheduled when the run ends.
C22_BatchPlansEveryPiece ==
    [][\A t \in Threads :
         /\ (tpc[t] = "pending" /\ tpc'[t] = "b_store") =>
               /\ \A p \in platforms, th \in ThemesOf(content_themes) :
                     RequestsFor(tbatch'[t], p, th) = 2
               /\ Len(tbatch'[t]) =
                     2 * Cardinality(platforms) * Cardinality(ThemesOf(content_themes))
         /\ BatchStores(t) =>
               LET piece == Head(tbatch[t])
                   row   == posts'[Len(posts')]
               IN  /\ Len(posts') = Len(posts) + 1
                   /\ SubSeq(posts', 1, Len(posts)) = posts
                   /\ row.platform = piece.platform
                   /\ row.theme = piece.theme
                   /\ row.status = "scheduled"
                   /\ row.scheduled_time \in
                        {GetNextOptimalTime(piece.platform, now, m) : m \in 0..59}
                   /\ row.scheduled_time > now
                   /\ \A i \in RowsOfRun(t, tbatch[t]) :
                        i >= 1 /\ posts'[i].status = "scheduled"]_vars

\* A batch run has ended and the table holds two scheduled rows of every
\* platform, planned for different hours.
C22_BatchPlanned ==
    /\ \A t \in Threads : tpc[t] # "b_store"
    /\ Len(posts) = 2 * Cardinality(Platforms)
    /\ \A p \in Platforms :
          Cardinality({i \in 1..Len(posts) :
                         posts[i].platform = p /\ posts[i].status = "scheduled"}) = 2
    /\ \E i, j \in 1..Len(posts) :
          posts[i].scheduled_time \div 60 # posts[j].scheduled_time \div 60

\* The texts _get_fallback_content may return: what a generation call whose
\* AI services failed hands back.
FallbackTexts ==
    UNION {{fallback_content(th)[n] : n \in 1..3} : th \in FallbackThemes}

\* C23: in a batch-planner run where some generation calls fail the run is
\* not aborted and does not raise: it goes on with the next piece until the
\* last; every piece that was generated stores one scheduled row, and a
\* failed call stores no row (no row holds what a failed call hands back).
C23_BatchSkipsFailedCalls ==
    [][\A t \in Threads :
         BatchStores(t) =>
            /\ tbatch'[t] = Tail(tbatch[t])
            /\ tpc'[t] = IF Tail(tbatch[t]) = <<>> THEN "pending" ELSE "b_store"
            /\ \/ posts' = posts
               \/ /\ Len(posts') = Len(posts) + 1
                  /\ posts'[Len(posts')].status = "scheduled"
                  /\ posts'[Len(posts')].content \notin FallbackTexts]_vars

\* Thread t takes the step in which its cleanup job does its work.
CleanupStep(t) ==
    /\ tpc[t] = "m_run"
    /\ tjob[t].kind = "cleanup"
    /\ tpc'[t] = "pending"

\* C24: the cleanup task deletes exactly the rows with status failed that
\* are older than 7 days; every row of another status, every failed row not
\* older than 7 days and every analytics sample is left unchanged; no other
\* step deletes a row.
C24_CleanupDeletesOldFailed ==
    [][/\ Len(posts') >= Len(posts)
       /\ \A t \in Threads :
            CleanupStep(t) =>
               /\ Len(posts') = Len(posts)
               /\ analytics' = analytics
               /\ \A i \in 1..Len(posts) :
                     posts'[i] =
                       IF /\ posts[i].status = "failed"
                          /\ now - posts[i].created_at > 7 * 24 * 60
                       THEN [posts[i] EXCEPT !.status = DELETED]
                       ELSE posts[i]
       /\ \A i \in 1..Len(posts) :
            (posts'[i].status = DELETED /\ posts[i].status # DELETED)
               => \E t \in Threads : CleanupStep(t)]_vars

\* A cleanup has deleted a failed row while a failed row that is not older
\* than 7 days, a posted row and an analytics sample remain.
C24_CleanedUp ==
    /\ \E i \in 1..Len(posts) : posts[i].status = DELETED
    /\ \E i \in 1..Len(posts) :
          posts[i].status = "failed" /\ now - posts[i].created_at <= 7 * 24 * 60
    /\ \E i \in 1..Len(posts) : posts[i].status = "posted"
    /\ analytics # {}

\* C25: when should_post(platform) is false the dispatch job is a no-op: it
\* creates no row and changes no status, it reaches neither the generator
\* nor the publisher (it returns from where should_post left it), and no
\* timestamp is appended to a history of the rate limiter.
C25_RateLimitedDispatchIsNoOp ==
    [][\A t \in Threads :
         /\ (ShouldPostStep(t) /\ tpc'[t] = "d_skip") =>
               /\ posts' = posts
               /\ tpost'[t] = 0
               /\ \A p \in Platforms :
                     /\ Len(posting_history'[p]) <= Len(posting_history[p])
                     /\ \A i \in 1..Len(posting_history'[p]) :
                           \E j \in 1..Len(posting_history[p]) :
                              posting_history'[p][i] = posting_history[p][j]
         /\ (tpc[t] = "d_skip" /\ tpc'[t] # "d_skip") =>
               /\ tpc'[t] = "pending"
               /\ JobEnds(t)
               /\ posts' = posts
               /\ tpost'[t] = 0
               /\ posting_history' = posting_history]_vars

\* should_post answered false to a dispatch job: the platform of its trigger
\* has max_posts_per_day posts within the last 24 hours.
C25_DispatchRateLimited ==
    \E t \in Threads :
       /\ tpc[t] = "d_skip"
       /\ Len(posting_history[tjob[t].platform]) >= max_posts_per_day
       /\ posts # <<>>

\* Thread t's dispatch job leaves the query for due rows.
DispatchFetched(t) == tpc[t] = "d_fetch" /\ tpc'[t] # "d_fetch"

\* C26: when at least one row is scheduled and due, a dispatch job that
\* passed the rate check does not call the generator and publishes exactly
\* one row, the due row with the earliest scheduled_time; a scheduled row
\* whose scheduled_time lies in the future is never published.
C26_PublishesEarliestDue ==
    [][\A t \in Threads :
         /\ (DispatchFetched(t) /\ ScheduledDue # {}) =>
               /\ tpc'[t] = "d_publish"
               /\ posts' = posts
               /\ tpost'[t] \in ScheduledDue
               /\ \A j \in ScheduledDue :
                     posts[tpost'[t]].scheduled_time <= posts[j].scheduled_time
         /\ (tpc[t] = "d_publish" /\ tpc'[t] # "d_publish") =>
               /\ \A i \in 1..Len(posts) : i # tpost[t] => posts'[i] = posts[i]
               /\ posts[tpost[t]].status = "scheduled"
                     => posts[tpost[t]].scheduled_time <= now]_vars

\* Thread t's dispatch job returns from _execute_post.
DispatchExecuted(t) == tpc[t] = "d_publish" /\ tpc'[t] # "d_publish"

C28_PublishFailureRecorded ==
    [][\A t \in Threads :
         (DispatchExecuted(t) /\ posts'[tpost[t]].status # "posted") =>
            /\ posts'[tpost[t]].status = "failed"
            /\ posts'[tpost[t]].error_message # None
            /\ posting_history' = posting_history
            /\ tpc'[t] = "pending"
            /\ tpost'[t] = 0
            /\ JobEnds(t)]_vars

\* The timestamps of a history.
TimesIn(h) == {h[i] : i \in 1..Len(h)}

\* C29: should_post(platform) changes nothing but that platform's own
\* history, from which it only removes timestamps (the rows and the other
\* platforms' histories stay as they are); record_post(platform) appends
\* exactly one timestamp, the current time, to that platform's history and
\* changes no other history.
C29_HistoryOperations ==
    [][/\ \A t \in Threads :
            ShouldPostStep(t) =>
               LET own == tjob'[t].platform
               IN  /\ posts' = posts
                   /\ analytics' = analytics
                   /\ posting_history'[own] =
                         SelectSeq(posting_history[own],
                                   LAMBDA x : x \in TimesIn(posting_history'[own]))
                   /\ \A p \in Platforms \ {own} :
                         posting_history'[p] = posting_history[p]
       /\ \A p \in Platforms :
            Len(posting_history'[p]) > Len(posting_history[p]) =>
               /\ posting_history'[p] = Append(posting_history[p], now)
               /\ \A q \in Platforms \ {p} :
                     posting_history'[q] = posting_history[q]
               /\ \E i \in 1..Len(posts') :
                     /\ posts'[i].platform = p
                     /\ posts'[i].status = "posted"
                     /\ posts'[i].posted_time = now]_vars

\* should_post has pruned the history of its own platform, whose post was
\* recorded a day or more ago, and left in the history of another platform a
\* timestamp that is as old.
C29_PrunedOwnHistoryOnly ==
    \E t \in Threads :
       /\ tpc[t] = "d_fetch"
       /\ posting_history[tjob[t].platform] = <<>>
       /\ \E i \in 1..Len(posts) :
             /\ posts[i].platform = tjob[t].platform
             /\ posts[i].status = "posted"
             /\ now - posts[i].posted_time >= HOURS_24
       /\ \E p \in Platforms \ {tjob[t].platform} :
             \E i \in 1..Len(posting_history[p]) :
                now - posting_history[p][i] >= HOURS_24

\* The polling threads that are inside a job function.
InJob == {t \in Threads : tjob[t] # NoJob}

\* C30: the due jobs run one after another: at no time do two jobs of the
\* polling loop execute concurrently, and a job starts only when no job that
\* was started before it is still running.
C30_JobsRunOneAtATime ==
    /\ Cardinality(InJob) <= 1
    /\ \A t \in Threads : tpc[t] = "pending" => tjob[t] = NoJob

\* The optimal hours of the platform of the last call.
OptimalHours == {optimal_times(ret.platform)[i] : i \in 1..Len(optimal_times(ret.platform))}

\* C31 as amended: the timestamp _get_next_optimal_time returns has second
\* and microsecond zero and a minute m with 0 <= m <= 59 (random.randint
\* includes both ends), within an optimal hour of the platform.
C31_MinuteOfOptimalTime ==
    ret.op = "next_optimal_time" =>
       /\ ret.second = 0
       /\ ret.value % 60 \in 0..59
       /\ (ret.value \div 60) % 24 \in OptimalHours

\* C31 as written: the minute of the timestamp lies in [0, 59), that is
\* 0 <= m <= 58, and second and microsecond are zero.
C31_MinuteBelow59 ==
    ret.op = "next_optimal_time" =>
       /\ ret.second = 0
       /\ ret.value % 60 \in 0..58

\* A call has returned a timestamp at minute 59 of an optimal hour.
C31_ReturnedMinute59 ==
    /\ ret.op = "next_optimal_time"
    /\ ret.value % 60 = 59
    /\ (ret.value \div 60) % 24 \in OptimalHours

----------------------------------------------------------------------------
(* Properties of post_with_retry (SpecRetry). *)

\* C32: post_with_retry calls post_content at most max_retries times; it
\* returns the result of the first attempt that succeeds, every attempt
\* before it having failed, and makes no attempt after it; when every attempt
\* fails, max_retries attempts were made and the error of the last one is
\* raised to the caller.
C32_RetryAttempts ==
    /\ retry.calls <= retry.max_retries
    /\ retry.attempt < retry.max_retries \/ retry.max_retries = 0
    /\ (retry.outcome = "returned" /\ retry.max_retries > 0) =>
          /\ retry.value # None
          /\ retry.value[1] \in {"ok", "fail"}
          /\ retry.value[2] = retry.calls
          /\ Len(retry.errors) = retry.attempt
    /\ retry.outcome = "raised" =>
          /\ Len(retry.errors) = retry.max_retries
          /\ retry.value = retry.errors[retry.max_retries]
          /\ retry.value[2] = retry.max_retries - 1
    /\ retry.pc = "done" => retry.outcome \in {"returned", "raised"}

\* A call with the default of three attempts has raised the error of the
\* third attempt, after two attempts that failed in post_content.
C32_ThirdAttemptRaised ==
    /\ retry.pc = "done"
    /\ retry.max_retries = 3
    /\ retry.outcome = "raised"
    /\ retry.calls = 3

\* C33: the wait between failed attempt k (counted from 0) and the next
\* attempt is 2^k seconds (1 s, then 2 s for three attempts), and no wait
\* follows the final failed attempt.
C33_ExponentialBackoff ==
    /\ Len(retry.sleeps) = retry.attempt
    /\ \A k \in 0..(retry.attempt - 1) : retry.sleeps[k + 1] = 2 ^ k
    /\ retry.outcome = "raised" => Len(retry.sleeps) = retry.max_retries - 1
    /\ (retry.outcome = "raised" /\ retry.max_retries = 3) => retry.sleeps = <<1, 2>>

\* A call with three attempts has waited 1 s and 2 s and has raised after
\* the third attempt.
C33_WaitedTwice ==
    /\ retry.outcome = "raised"
    /\ retry.max_retries = 3
    /\ Len(retry.sleeps) = 2

----------------------------------------------------------------------------
(* Further properties of the dispatch job. *)

\* C34: a dispatch job invoked for platform P publishes only to P: the row
\* it hands to the publisher is a row of P, the platform whose limit
\* should_post checked at the start of the job, and no history but that of P
\* gets a timestamp, also when the job reuses a pre-scheduled row.
C34_DispatchPublishesOwnPlatform ==
    [][\A t \in Threads :
         /\ (tpc[t] # "d_publish" /\ tpc'[t] = "d_publish") =>
               posts'[tpost'[t]].platform = tjob[t].platform
         /\ DispatchExecuted(t) =>
               /\ posts[tpost[t]].platform = tjob[t].platform
               /\ \A p \in Platforms \ {tjob[t].platform} :
                     posting_history'[p] = posting_history[p]]_vars

\* C35: each row is passed to the publisher at most once over its lifetime,
\* for any sequence of poll ticks, batch runs, manual dispatches and failures
\* of the status update that follows a publish.
C35_PublishedAtMostOnce ==
    \A i \in 1..Len(posts) : posts[i].published <= 1

\* How often timestamp x occurs in history h.
Occurrences(h, x) == Cardinality({i \in 1..Len(h) : h[i] = x})

\* C36: when a manual dispatch runs concurrently with the polling loop's
\* should_post for the same platform, no recorded timestamp younger than 24
\* hours is lost: every such timestamp of the platform's history is still in
\* it after should_post has written back its pruned list.
C36_NoTimestampLost ==
    [][\A t \in Threads :
         (tpc[t] = "d_prune" /\ tpc'[t] # "d_prune") =>
            LET before == posting_history[tjob[t].platform]
                after  == posting_history'[tjob[t].platform]
            IN  \A i \in 1..Len(before) :
                   now - before[i] < HOURS_24 =>
                      Occurrences(after, before[i]) = Occurrences(before, before[i])]_vars

\* The positions of a job at which its next step goes through the database
\* session or the content generator.
HandlePositions == {"d_fetch", "d_generate", "d_publish", "b_store", "m_run"}

\* Thread t takes a step of a dispatch, batch, analytics or cleanup job that
\* reads or writes through the generator or the database handle.
UsesHandles(t) ==
    \/ tpc[t] \in HandlePositions /\ (tpc'[t] # tpc[t] \/ posts' # posts)
    \/ tpc[t] = "pending" /\ tpc'[t] = "b_store"

\* C38: stop() releases the generator and database handles only after the
\* polling loop has stopped using them: once they are released, no step of a
\* dispatch, batch, analytics or cleanup job reads or writes through them.
C38_NoUseAfterRelease ==
    [][handles_closed => \A t \in Threads : ~UsesHandles(t)]_vars

\* A call of initialize() that returned false.
InitializeFailed ==
    /\ last_call'.op = "initialize"
    /\ last_init'.result = "false"
    /\ (last_call' # last_call \/ last_init' # last_init \/ platforms' # platforms
        \/ jobs' # jobs)

\* C39: when initialize() returns false, the active platform list and the
\* registered trigger table are the same as before the call.
C39_FailedInitializeChangesNothing ==
    [][InitializeFailed => (platforms' = platforms /\ jobs' = jobs)]_vars

\* initialize() has returned false on a scheduler whose triggers an earlier
\* initialize() registered for one platform only.
C39_FailedAfterSuccess ==
    /\ last_call.op = "initialize"
    /\ last_init.result = "false"
    /\ jobs # <<>>
    /\ platforms # Platforms

\* How many entries of history were posted on the day of entry i.
PostedOnDayOf(history, i) ==
    Cardinality({j \in 1..Len(history) :
                   DateOf(history[j].posted_time) = DateOf(history[i].posted_time)})

\* C40: the number of entries of the agent's posting_history whose
\* posted_time falls on one UTC calendar day never exceeds max_daily_posts,
\* for any sequence of posting jobs over the configured platforms and any
\* manual posts.
C40_DailyLimitHolds ==
    \A i \in 1..Len(agent.posting_history) :
       PostedOnDayOf(agent.posting_history, i) <= agent.max_daily_posts
====
